---- MODULE Spec2Model ----
(***************************************************************************)
(* A model of kyks: status levels, the action descriptors that bind to     *)
(* their owner on attribute access, the stage of a ButtonAction, the       *)
(* access checks, the user's status, the reload loop of safe_render and    *)
(* the redirection middleware, the list component, the Kyks registry, the   *)
(* identifiers of models and the form handlers of a model.                 *)
(***************************************************************************)
EXTENDS Integers, Sequences, FiniteSets, TLC

VARIABLES
    dict,       \* dict[a]: the instance __dict__ of action object a
    last,       \* the last operation evaluated on a component, its inputs and its result
    probe,      \* an input of get_stage fixed for the whole behaviour, and the stages seen for it
    thr,        \* thr[t]: the position and observations of request thread t
    usr,        \* the requesting user, the session, and the status set on the user
    rnd,        \* one call of safe_render: its loop, its root kyk and template, its request
    Kyks,       \* the Kyks registry: the component object stored under each key
    objs,       \* objs[o]: the attributes of component object o
    clsdict,    \* clsdict[c]: the class attributes cached on model class c
    frm,        \* the saved records of a model and the last call of a form handler on them
    pd          \* a ParameterDict: its items, its cached value2key and the last lookup

vars == <<dict, last, probe, thr, usr, rnd, Kyks, objs, clsdict, frm, pd>>

\* what the operations on actions leave alone
notAction == <<usr, rnd, Kyks, objs, clsdict, frm, pd>>

\* what the operations on the user's status leave alone
notUser == <<dict, last, probe, thr, rnd, Kyks, objs, clsdict, frm, pd>>

\* what safe_render leaves alone
notRender == <<dict, last, probe, thr, usr, Kyks, objs, clsdict, frm, pd>>

\* what the list component leaves alone
notList == <<dict, probe, thr, usr, rnd, Kyks, objs, clsdict, frm, pd>>

\* what the registry leaves alone
notRegistry == <<dict, probe, thr, usr, rnd, clsdict, frm, pd>>

\* what a ParameterDict leaves alone
notParameters == <<dict, last, probe, thr, usr, rnd, Kyks, objs, clsdict, frm>>

\* what reading an identifier leaves alone
notClass == <<dict, probe, thr, usr, rnd, Kyks, objs, frm, pd>>

\* what the form handlers leave alone
notForm == <<dict, last, probe, thr, usr, rnd, Kyks, objs, clsdict, pd>>

(***************************************************************************)
(* Bounds                                                                  *)
(***************************************************************************)
MaxPk == 2

(***************************************************************************)
(* Status levels: the ParameterDict built from settings.KYK_STATUS         *)
(***************************************************************************)
KYK_STATUS == <<"PUBLIC", "HUMAN", "USER", "EDITOR", "STAFF", "AGENT", "ADMINISTRATOR">>

\* ParameterDict.__init__: key -> i+1 for the i-th positional key (i from 0)
Status(key) == CHOOSE v \in 1..Len(KYK_STATUS) : KYK_STATUS[v] = key

StatusValues == 1..Len(KYK_STATUS)

(***************************************************************************)
(* Owners: a model class and its instances                                 *)
(***************************************************************************)
Classes == {"app.Doc"}

ClassRef(c) == [kind |-> "class", cls |-> c, pk |-> 0, act |-> ""]

InstanceRef(c, n) == [kind |-> "instance", cls |-> c, pk |-> n, act |-> ""]

ActionRef(a) == [kind |-> "action", cls |-> "ButtonAction", pk |-> 0, act |-> a]

Instances == {InstanceRef(c, n) : c \in Classes, n \in 1..MaxPk}

ModelOwners == Instances \cup {ClassRef(c) : c \in Classes}

\* KykModel.kyk_Identifier: cls._meta.label
kyk_Identifier(c) == c

\* KykModelIdentifier.__get__
kyk_identifier(o) ==
    IF o.kind = "instance"
    THEN kyk_Identifier(o.cls) \o "-" \o ToString(o.pk)
    ELSE kyk_Identifier(o.cls)

(***************************************************************************)
(* Action objects: one per decorated method, shared by every owner         *)
(***************************************************************************)
\* status 0 stands for status=None (no explicit status)
ActionDefs ==
    [ kyk_create |-> [class |-> "ButtonAction", status |-> Status("EDITOR"),
                      kyk_is_instance |-> FALSE, name |-> "kyk_create"],
      kyk_edit   |-> [class |-> "ButtonAction", status |-> Status("EDITOR"),
                      kyk_is_instance |-> TRUE, name |-> "kyk_edit"],
      kyk_author |-> [class |-> "AuthorAction", status |-> Status("EDITOR"),
                      kyk_is_instance |-> TRUE, name |-> "kyk_author"],
      kyk_view   |-> [class |-> "Action", status |-> 0,
                      kyk_is_instance |-> TRUE, name |-> "kyk_view"],
      button     |-> [class |-> "Action", status |-> 0,
                      kyk_is_instance |-> TRUE, name |-> "button"],
      result     |-> [class |-> "Action", status |-> 0,
                      kyk_is_instance |-> TRUE, name |-> "result"] ]

ActionObjs == DOMAIN ActionDefs

ButtonActions == {a \in ActionObjs : ActionDefs[a].class = "ButtonAction"}

SubActions == {"button", "result"}

PRESENT_BUTTON == 1

PRESENT_FORM == 2

PROCESS_FORM == 3

\* Action.__init__: an explicit status is stored on the action object
\* and apply stores the decorated method as func
InitDict(a) ==
    IF ActionDefs[a].status # 0
    THEN [func |-> ActionDefs[a].name, kyk_STATUS |-> ActionDefs[a].status]
    ELSE [func |-> ActionDefs[a].name]

HasAttr(a, attr) == attr \in DOMAIN dict[a]

(***************************************************************************)
(* Requests                                                                *)
(***************************************************************************)
Methods == {"GET", "POST", "HEAD"}

PyNone == "<None>"

QueryValues == {kyk_identifier(o) : o \in ModelOwners}

\* the query string holds at most one parameter here
Queries == {{}} \cup {{<<ActionDefs[a].name, v>>} : a \in ButtonActions, v \in QueryValues}

BodyKeys == {kyk_identifier(o) \o "-" \o ActionDefs[a].name : o \in ModelOwners, a \in ButtonActions}

Bodies == {{}} \cup {{k} : k \in BodyKeys}

Requests == [method : Methods, GET : Queries, POST : Bodies]

\* request.GET.get(name)
QueryGet(request, name) ==
    IF \E p \in request.GET : p[1] = name
    THEN (CHOOSE p \in request.GET : p[1] = name)[2]
    ELSE PyNone

\* the requests of the edit lifecycle of the first instance: a plain read, the
\* read that asks for the form, and the write that submits it
SampleRequests ==
    LET id == kyk_identifier(InstanceRef("app.Doc", 1))
    IN  { [method |-> "GET", GET |-> {}, POST |-> {}],
          [method |-> "GET", GET |-> {<<"kyk_edit", id>>}, POST |-> {}],
          [method |-> "POST", GET |-> {}, POST |-> {id \o "-" \o "kyk_edit"}] }

(***************************************************************************)
(* ButtonAction                                                            *)
(***************************************************************************)
\* ButtonAction.submitter
submitter(a) == kyk_identifier(dict[a].kyk) \o "-" \o ActionDefs[a].name

\* a get_stage that trusts the query parameter whatever the request method
get_stage_any_method(a, request) ==
    [ stage |->
        IF QueryGet(request, ActionDefs[a].name) = kyk_identifier(dict[a].kyk)
        THEN PRESENT_FORM
        ELSE IF request.method = "POST" /\ submitter(a) \in request.POST
             THEN PROCESS_FORM
             ELSE PRESENT_BUTTON,
      self |-> dict[a] ]

\* a get_stage that takes the submitter key from the body of any request
get_stage_any_body(a, request) ==
    [ stage |->
        IF request.method = "GET"
           /\ QueryGet(request, ActionDefs[a].name) = kyk_identifier(dict[a].kyk)
        THEN PRESENT_FORM
        ELSE IF submitter(a) \in request.POST
             THEN PROCESS_FORM
             ELSE PRESENT_BUTTON,
      self |-> dict[a] ]

\* a get_stage that keeps the first stage it computed on the action object
get_stage_memo(a, request) ==
    IF HasAttr(a, "stage")
    THEN [stage |-> dict[a].stage, self |-> dict[a]]
    ELSE LET s == IF request.method = "GET"
                     /\ QueryGet(request, ActionDefs[a].name) = kyk_identifier(dict[a].kyk)
                  THEN PRESENT_FORM
                  ELSE IF request.method = "POST" /\ submitter(a) \in request.POST
                       THEN PROCESS_FORM
                       ELSE PRESENT_BUTTON
         IN  [stage |-> s, self |-> ("stage" :> s) @@ dict[a]]

\* ButtonAction.get_stage: the stage it returns, and the action object's
\* __dict__ when it returns
get_stage(a, request) ==
    [ stage |->
        IF request.method = "GET"
           /\ QueryGet(request, ActionDefs[a].name) = kyk_identifier(dict[a].kyk)
        THEN PRESENT_FORM
        ELSE IF request.method = "POST" /\ submitter(a) \in request.POST
             THEN PROCESS_FORM
             ELSE PRESENT_BUTTON,
      self |-> dict[a] ]

NoLast == [op |-> "none"]

NoKyks == <<>>

NoClsdict == <<>>

NoForm == [pc |-> "none"]

NoPd == [op |-> "none"]

NoObjs == <<>>

NoUser == [op |-> "none"]

NoRender == [pc |-> "none"]

\* Action.__get__ on a model class or instance: binds the one action object
\* to the owner of this access and returns that same object
Access(a, o) ==
    /\ dict' = [dict EXCEPT ![a] =
                   ("kyk" :> (IF o.kind = "instance" /\ ActionDefs[a].kyk_is_instance
                              THEN o ELSE ClassRef(o.cls))) @@ dict[a]]
    /\ probe' = IF probe.count > 0 THEN [probe EXCEPT !.between = TRUE] ELSE probe
    /\ UNCHANGED <<last, thr>>
    /\ UNCHANGED notAction

(***************************************************************************)
(* The stage of an action, evaluated over and over                         *)
(***************************************************************************)
\* get_stage on the probed action and request
GetStageProbe ==
    LET a == probe.action
        res == get_stage(a, probe.request)
        id == kyk_identifier(dict[a].kyk)
    IN  /\ HasAttr(a, "kyk")
        /\ dict' = [dict EXCEPT ![a] = res.self]
        /\ probe' =
             IF probe.count = 0
             THEN [probe EXCEPT !.identifier = id, !.first = res.stage, !.latest = res.stage,
                                !.count = 1, !.stored = @ \/ res.self # dict[a]]
             ELSE IF probe.identifier = id
                  THEN [probe EXCEPT !.latest = res.stage, !.count = 2,
                                     !.stored = @ \/ res.self # dict[a]]
                  ELSE [probe EXCEPT !.between = TRUE, !.stored = @ \/ res.self # dict[a]]
        /\ UNCHANGED <<last, thr>>
        /\ UNCHANGED notAction

\* get_stage on another action or request
GetStageOther(a, request) ==
    LET res == get_stage(a, request)
    IN  /\ HasAttr(a, "kyk")
        /\ <<a, request>> # <<probe.action, probe.request>>
        /\ dict' = [dict EXCEPT ![a] = res.self]
        /\ probe' = [probe EXCEPT !.between = (@ \/ probe.count > 0),
                                  !.stored = @ \/ res.self # dict[a]]
        /\ UNCHANGED <<last, thr>>
        /\ UNCHANGED notAction

NoThreads == <<>>

InitStage ==
    /\ dict = [a \in ActionObjs |-> InitDict(a)]
    /\ probe \in [action : ButtonActions, request : Requests, identifier : {""},
                  first : {0}, latest : {0}, count : {0}, between : {FALSE}, stored : {FALSE}]
    /\ last = NoLast
    /\ thr = NoThreads
    /\ usr = NoUser
    /\ rnd = NoRender
    /\ clsdict = NoClsdict
    /\ pd = NoPd
    /\ frm = NoForm
    /\ Kyks = NoKyks
    /\ objs = NoObjs

NextStage ==
    \/ \E a \in ButtonActions, o \in ModelOwners : Access(a, o)
    \/ GetStageProbe
    \/ \E a \in ButtonActions, r \in SampleRequests : GetStageOther(a, r)

SpecStage == InitStage /\ [][NextStage]_vars

(***************************************************************************)
(* C1: get_stage returns PRESENT_FORM (2) for a GET whose query parameter  *)
(* named like the action equals the owner's identifier, otherwise          *)
(* PROCESS_FORM (3) for a POST whose body holds the key identifier-name,   *)
(* and otherwise PRESENT_BUTTON (1).                                       *)
(***************************************************************************)
C1_StageByRequest ==
    probe.count > 0 =>
        LET r == probe.request
            name == ActionDefs[probe.action].name
            read == r.method = "GET" /\ <<name, probe.identifier>> \in r.GET
            write == r.method = "POST" /\ (probe.identifier \o "-" \o name) \in r.POST
        IN  /\ read => probe.latest = 2
            /\ ~read /\ write => probe.latest = 3
            /\ ~read /\ ~write => probe.latest = 1

\* a POST that carries the submitter key and also the matching query parameter
C1_Witness ==
    /\ probe.count > 0
    /\ probe.latest = 3
    /\ <<ActionDefs[probe.action].name, probe.identifier>> \in probe.request.GET

(***************************************************************************)
(* C2: the stage is a function of the request method, the query            *)
(* parameters, the body keys, the owner's identifier and the action name:  *)
(* two evaluations with equal inputs return the same stage, whatever was   *)
(* accessed or evaluated in between, and no evaluation of get_stage        *)
(* changes the action object.                                              *)
(***************************************************************************)
C2_StagePure ==
    /\ ~probe.stored
    /\ probe.count > 0 => probe.latest = probe.first

\* evaluated twice on equal inputs, with other accesses or evaluations in between
C2_Witness == probe.count = 2 /\ probe.between /\ probe.first = 2

(***************************************************************************)
(* C3: an action obtained through owner A stays bound to A: no later       *)
(* access of the same attribute through another owner changes the          *)
(* identifier behind its submitter and stage, or the owner it passes to    *)
(* the handler.                                                            *)
(***************************************************************************)
C3_StaysBound ==
    [][\A a \in ButtonActions :
          HasAttr(a, "kyk") =>
              /\ dict'[a].kyk = dict[a].kyk
              /\ submitter(a)' = submitter(a)]_vars

(***************************************************************************)
(* Access checks                                                           *)
(***************************************************************************)
UserNames == {"alice", "bob"}

Users == [name : UserNames, status : StatusValues]

\* the author field of the model instances
AuthorField == [n \in 1..MaxPk |-> IF n = 1 THEN "alice" ELSE "bob"]

\* the components that are not action objects, with the kyk_STATUS their class sets
Components ==
    [ Users      |-> [kind |-> "KykBase", kyk_STATUS |-> Status("PUBLIC")],
      KykModel   |-> [kind |-> "KykBase", kyk_STATUS |-> Status("USER")],
      KykUser    |-> [kind |-> "KykBase", kyk_STATUS |-> Status("STAFF")],
      kyk_delete |-> [kind |-> "simple_action", kyk_STATUS |-> Status("EDITOR")] ]

\* KykBase.kyk_ACTION_STATUS, which every owner inherits: model classes, their
\* instances and action objects alike; the subclass app.Report of app.Doc sets
\* its own
kyk_ACTION_STATUS(o) ==
    IF o.kind # "action" /\ o.cls = "app.Report" THEN Status("EDITOR") ELSE Status("PUBLIC")

\* app.Plain is an owner class outside KykBase: it has a kyk_STATUS and no
\* kyk_ACTION_STATUS
HasActionStatus(o) == ~(o.kind # "action" /\ o.cls = "app.Plain")

\* the body of Action.kyk_STATUS: self.kyk.kyk_ACTION_STATUS, and
\* self.kyk.kyk_STATUS on AttributeError
owner_status(o) ==
    IF HasActionStatus(o) THEN kyk_ACTION_STATUS(o) ELSE Status("USER")

\* Action.kyk_STATUS, a cached_property: the value read, and the action
\* object's __dict__ after the read
kyk_STATUS(a) ==
    IF HasAttr(a, "kyk_STATUS")
    THEN [value |-> dict[a].kyk_STATUS, self |-> dict[a]]
    ELSE LET v == owner_status(dict[a].kyk)
         IN  [value |-> v, self |-> ("kyk_STATUS" :> v) @@ dict[a]]

\* an access check that asks for more than the required status
kyk_allowed_strict(required_status, user) == user.status > required_status

\* KykBase.kyk_allowed
kyk_allowed(required_status, user) == user.status >= required_status

\* the kyk_allowed that simple_action sets on the method
simple_action_allowed(required_status, user) == user.status >= required_status

AUTHOR_STATUS == Status("USER")

\* AuthorAction.kyk_allowed: the author is looked up on self._intance
AuthorAction_kyk_allowed(a, user) ==
    LET general == kyk_STATUS(a).value
        required_status ==
            IF /\ HasAttr(a, "_intance")
               /\ dict[a]._intance.kind = "instance"
               /\ user.name = AuthorField[dict[a]._intance.pk]
            THEN AUTHOR_STATUS
            ELSE general
    IN  user.status >= required_status

\* kyk_allowed of a component that is no action object
ComponentAllowed(c, user) ==
    /\ last' = [op |-> "kyk_allowed", target |-> c, kind |-> Components[c].kind,
                user |-> user, owner |-> ClassRef(""),
                out |-> IF Components[c].kind = "simple_action"
                        THEN simple_action_allowed(Components[c].kyk_STATUS, user)
                        ELSE kyk_allowed(Components[c].kyk_STATUS, user)]
    /\ UNCHANGED <<dict, probe, thr>>
    /\ UNCHANGED notAction

\* kyk_allowed of an action object
ActionAllowed(a, user) ==
    /\ HasAttr(a, "kyk")
    /\ dict' = [dict EXCEPT ![a] = kyk_STATUS(a).self]
    /\ last' = [op |-> "kyk_allowed", target |-> a, kind |-> ActionDefs[a].class,
                user |-> user, owner |-> dict[a].kyk,
                out |-> IF ActionDefs[a].class = "AuthorAction"
                        THEN AuthorAction_kyk_allowed(a, user)
                        ELSE kyk_allowed(kyk_STATUS(a).value, user)]
    /\ UNCHANGED <<probe, thr>>
    /\ UNCHANGED notAction

\* Action.__get__ on a ButtonAction object: action.button, action.result
AccessSub(s, a) ==
    /\ dict' = [dict EXCEPT ![s] = ("kyk" :> ActionRef(a)) @@ dict[s]]
    /\ UNCHANGED <<last, probe, thr>>
    /\ UNCHANGED notAction

NoProbe == [count |-> 0]

InitAllowed ==
    /\ dict = [a \in ActionObjs |-> InitDict(a)]
    /\ last = NoLast
    /\ probe = NoProbe
    /\ thr = NoThreads
    /\ usr = NoUser
    /\ rnd = NoRender
    /\ clsdict = NoClsdict
    /\ pd = NoPd
    /\ frm = NoForm
    /\ Kyks = NoKyks
    /\ objs = NoObjs

NextAllowed ==
    \/ \E a \in {"kyk_edit", "kyk_author"}, o \in ModelOwners : Access(a, o)
    \/ \E a \in ButtonActions : AccessSub("button", a)
    \/ \E c \in DOMAIN Components, u \in Users : ComponentAllowed(c, u)
    \/ \E a \in {"kyk_edit", "kyk_author", "button"}, u \in Users : ActionAllowed(a, u)

SpecAllowed == InitAllowed /\ [][NextAllowed]_vars

(***************************************************************************)
(* C6: AuthorAction.kyk_allowed(user) is user.status >= AUTHOR_STATUS when *)
(* the user is the author named by the owner's author field, and           *)
(* user.status >= kyk_STATUS otherwise.                                    *)
(***************************************************************************)
C6_AuthorOverride ==
    last.op = "kyk_allowed" /\ last.kind = "AuthorAction" =>
        last.out =
            IF last.owner.kind = "instance" /\ last.user.name = AuthorField[last.owner.pk]
            THEN last.user.status >= Status("USER")
            ELSE last.user.status >= ActionDefs[last.target].status

(***************************************************************************)
(* C7: for a component without an author override, kyk_allowed(user) is    *)
(* true exactly when user.status >= the component's kyk_STATUS.            *)
(***************************************************************************)
C7_AllowedIffStatus ==
    last.op = "kyk_allowed" /\ last.kind # "AuthorAction" =>
        LET required ==
                IF last.target \in DOMAIN Components
                THEN Components[last.target].kyk_STATUS
                ELSE dict[last.target].kyk_STATUS
        IN  last.out <=> last.user.status >= required

\* a user exactly at the required status of a model instance is allowed
C7_Witness ==
    /\ last.op = "kyk_allowed"
    /\ last.target = "KykModel"
    /\ last.user.status = 3
    /\ last.out

(***************************************************************************)
(* Rendering an action with the kykin tag                                  *)
(***************************************************************************)
NoOwner == ClassRef("")

\* ButtonAction.button: the GET button of ButtonAction a
button(a, request, stage0, design) ==
    LET stage == IF stage0 # 0 THEN stage0 ELSE get_stage(a, request).stage
    IN  [ kind |-> "button", stage |-> stage, invoked |-> FALSE,
          design |-> IF stage > PRESENT_BUTTON THEN "disabled" ELSE design,
          owner |-> dict[a].kyk, bound |-> FALSE, submitter |-> "" ]

\* a result that hands the request body to the handler at every stage
result_always_bound(a, request, stage0) ==
    LET stage == IF stage0 # 0 THEN stage0 ELSE get_stage(a, request).stage
    IN  IF stage <= PRESENT_BUTTON
        THEN [ kind |-> "empty", stage |-> stage, invoked |-> FALSE, design |-> "",
               owner |-> NoOwner, bound |-> FALSE, submitter |-> "" ]
        ELSE [ kind |-> "handler", stage |-> stage, invoked |-> TRUE, design |-> "",
               owner |-> dict[a].kyk, bound |-> TRUE,
               submitter |-> submitter(a), data |-> request.POST ]

\* ButtonAction.result: nothing below PRESENT_FORM, else the bound handler,
\* called with data = request.POST (bound) at PROCESS_FORM and data = None
\* (not bound, data written {}) otherwise
result(a, request, stage0) ==
    LET stage == IF stage0 # 0 THEN stage0 ELSE get_stage(a, request).stage
    IN  IF stage <= PRESENT_BUTTON
        THEN [ kind |-> "empty", stage |-> stage, invoked |-> FALSE, design |-> "",
               owner |-> NoOwner, bound |-> FALSE, submitter |-> "" ]
        ELSE [ kind |-> "handler", stage |-> stage, invoked |-> TRUE, design |-> "",
               owner |-> dict[a].kyk, bound |-> (stage = PROCESS_FORM),
               submitter |-> submitter(a),
               data |-> IF stage = PROCESS_FORM THEN request.POST ELSE {} ]

\* ButtonAction.kyk_in
ButtonAction_kyk_in(a, request, stage0, design) ==
    LET stage == IF stage0 # 0 THEN stage0 ELSE get_stage(a, request).stage
    IN  IF stage <= PRESENT_BUTTON
        THEN button(a, request, stage, design)
        ELSE result(a, request, 0)

\* Action.kyk_in of the sub-actions: self.func(self.kyk, request)
Action_kyk_in(s, request) ==
    IF s = "button"
    THEN button(dict[s].kyk.act, request, 0, "")
    ELSE result(dict[s].kyk.act, request, 0)

Denied ==
    [ kind |-> "empty", stage |-> 0, invoked |-> FALSE, design |-> "",
      owner |-> NoOwner, bound |-> FALSE, submitter |-> "" ]

\* KykBase.kyk_in returns the template and the context of the component
KykBase_kyk_in(c, request) ==
    [ kind |-> "template", stage |-> 0, invoked |-> FALSE, design |-> "",
      owner |-> NoOwner, bound |-> FALSE, submitter |-> "" ]

\* a function decorated with simple_action is called with the request
simple_action_call(c, request) ==
    [ kind |-> "handler", stage |-> 0, invoked |-> TRUE, design |-> "",
      owner |-> NoOwner, bound |-> FALSE, submitter |-> "" ]

\* kyk.kyk_allowed(request.user) of a component of Components
component_allowed(c, user) ==
    IF Components[c].kind = "simple_action"
    THEN simple_action_allowed(Components[c].kyk_STATUS, user)
    ELSE kyk_allowed(Components[c].kyk_STATUS, user)

\* a tag that renders without the access check
kykin_unchecked(k, user, request) ==
    IF k \in DOMAIN Components
    THEN IF Components[k].kind = "simple_action"
         THEN simple_action_call(k, request)
         ELSE KykBase_kyk_in(k, request)
    ELSE IF k \in ButtonActions
         THEN ButtonAction_kyk_in(k, request, 0, "")
         ELSE Action_kyk_in(k, request)

\* kykin: the access check, then kyk_in or the call of the function
kykin(k, user, request) ==
    IF k \in DOMAIN Components
    THEN IF ~component_allowed(k, user)
         THEN Denied
         ELSE IF Components[k].kind = "simple_action"
              THEN simple_action_call(k, request)
              ELSE KykBase_kyk_in(k, request)
    ELSE IF ~kyk_allowed(kyk_STATUS(k).value, user)
         THEN Denied
         ELSE IF k \in ButtonActions
              THEN ButtonAction_kyk_in(k, request, 0, "")
              ELSE Action_kyk_in(k, request)

Kykin(k, user, request) ==
    /\ HasAttr(k, "kyk")
    /\ k \in SubActions => HasAttr(dict[k].kyk.act, "kyk")
    /\ dict' = [dict EXCEPT ![k] = kyk_STATUS(k).self]
    /\ last' = [op |-> "kykin", target |-> k, user |-> user, request |-> request,
                allowed |-> kyk_allowed(kyk_STATUS(k).value, user),
                parent |-> IF k \in SubActions THEN dict[k].kyk.act ELSE k,
                out |-> kykin(k, user, request)]
    /\ UNCHANGED <<probe, thr>>
    /\ UNCHANGED notAction

\* {% kykin kyk %} on a static component, a model component or a function
KykinComponent(c, user, request) ==
    /\ last' = [op |-> "kykin", target |-> c, user |-> user, request |-> request,
                allowed |-> component_allowed(c, user), parent |-> c,
                out |-> kykin(c, user, request)]
    /\ UNCHANGED <<dict, probe, thr>>
    /\ UNCHANGED notAction

\* the requests used where the component does not read the request
ComponentRequests == {r \in SampleRequests : r.method = "GET" /\ r.GET = {}}

\* the string the function returned by KykList.kyk_add answers a user who is
\* not allowed to create
Forbidden ==
    [ kind |-> "Forbidden", stage |-> 0, invoked |-> FALSE, design |-> "",
      owner |-> NoOwner, bound |-> FALSE, submitter |-> "" ]

\* {% kykin kyk_add %} in the list template: the function returned by
\* KykList(Model).kyk_add() has no kyk_allowed and is called with the request;
\* it reads Model.kyk_create, which binds the action to the class
KykAdd(c, user, request) ==
    /\ dict' = [dict EXCEPT !["kyk_create"] = ("kyk" :> ClassRef(c)) @@ kyk_STATUS("kyk_create").self]
    /\ last' = [op |-> "kyk_add", target |-> "kyk_add", user |-> user, request |-> request,
                allowed |-> kyk_allowed(kyk_STATUS("kyk_create").value, user),
                parent |-> "kyk_create",
                out |-> IF ~kyk_allowed(kyk_STATUS("kyk_create").value, user)
                        THEN Forbidden
                        ELSE (ButtonAction_kyk_in("kyk_create", request, 0, ""))']
    /\ UNCHANGED <<probe, thr>>
    /\ UNCHANGED notAction

KykinUsers == {u \in Users : u.name = "alice"}

InitKykin ==
    /\ dict = [a \in ActionObjs |-> InitDict(a)]
    /\ last = NoLast
    /\ probe = NoProbe
    /\ thr = NoThreads
    /\ usr = NoUser
    /\ rnd = NoRender
    /\ clsdict = NoClsdict
    /\ pd = NoPd
    /\ frm = NoForm
    /\ Kyks = NoKyks
    /\ objs = NoObjs

NextKykin ==
    \/ \E a \in ButtonActions, o \in ModelOwners : Access(a, o)
    \/ \E s \in SubActions, a \in ButtonActions : AccessSub(s, a)
    \/ \E k \in ButtonActions \cup SubActions, u \in KykinUsers, r \in SampleRequests :
          Kykin(k, u, r)
    \/ \E c \in DOMAIN Components, u \in KykinUsers, r \in ComponentRequests :
          KykinComponent(c, u, r)
    \/ \E c \in Classes, u \in KykinUsers, r \in SampleRequests : KykAdd(c, u, r)

SpecKykin == InitKykin /\ [][NextKykin]_vars

(***************************************************************************)
(* C5: the button and result sub-actions of a ButtonAction require the     *)
(* status of the ButtonAction: a user below that status is denied by       *)
(* them, and rendering action.result never invokes the bound handler for   *)
(* such a user.                                                            *)
(***************************************************************************)
C5_SubActionsGated ==
    (/\ last.op = "kykin"
     /\ last.target \in SubActions
     /\ last.user.status < ActionDefs[last.parent].status)
        => ~last.allowed /\ ~last.out.invoked

C17_AddDeniedIsEmpty ==
    last.op = "kyk_add" /\ ~last.allowed => last.out = Denied

(***************************************************************************)
(* Two requests rendering the same action attribute at the same time       *)
(***************************************************************************)
Threads == {"t1", "t2"}

\* the instance each request renders
OwnInstance(t) == InstanceRef("app.Doc", IF t = "t1" THEN 1 ELSE 2)

\* the requests of the edit lifecycle of instance o
LifecycleRequests(o) ==
    { [method |-> "GET", GET |-> {}, POST |-> {}],
      [method |-> "GET", GET |-> {<<"kyk_edit", kyk_identifier(o)>>}, POST |-> {}],
      [method |-> "POST", GET |-> {}, POST |-> {kyk_identifier(o) \o "-" \o "kyk_edit"}] }

\* kyk.kyk_edit is resolved: Action.__get__
Resolve(t) ==
    /\ thr[t].pc = "resolve"
    /\ dict' = [dict EXCEPT !["kyk_edit"] = ("kyk" :> OwnInstance(t)) @@ dict["kyk_edit"]]
    /\ thr' = [thr EXCEPT ![t].pc = "allowed"]
    /\ UNCHANGED <<last, probe>>
    /\ UNCHANGED notAction

\* kykin asks kyk_allowed
Allowed(t) ==
    /\ thr[t].pc = "allowed"
    /\ dict' = [dict EXCEPT !["kyk_edit"] = kyk_STATUS("kyk_edit").self]
    /\ thr' = [thr EXCEPT ![t].pc =
                  IF kyk_allowed(kyk_STATUS("kyk_edit").value, thr[t].user)
                  THEN "stage" ELSE "done"]
    /\ UNCHANGED <<last, probe>>
    /\ UNCHANGED notAction

\* ButtonAction.kyk_in computes the stage
Stage(t) ==
    /\ thr[t].pc = "stage"
    /\ thr' = [thr EXCEPT ![t].pc = "render",
                          ![t].stage = get_stage("kyk_edit", thr[t].request).stage,
                          ![t].stageOwner = dict["kyk_edit"].kyk]
    /\ UNCHANGED <<dict, last, probe>>
    /\ UNCHANGED notAction

\* ButtonAction.kyk_in renders the button or the result
Render(t) ==
    /\ thr[t].pc = "render"
    /\ LET out == IF thr[t].stage <= PRESENT_BUTTON
                  THEN button("kyk_edit", thr[t].request, thr[t].stage, "")
                  ELSE result("kyk_edit", thr[t].request, 0)
       IN  thr' = [thr EXCEPT ![t].pc = "done", ![t].out = out]
    /\ UNCHANGED <<dict, last, probe>>
    /\ UNCHANGED notAction

InitConc ==
    /\ dict = [a \in ActionObjs |-> InitDict(a)]
    /\ last = NoLast
    /\ probe = NoProbe
    /\ thr \in {f \in [Threads -> [pc : {"resolve"}, user : {u \in KykinUsers : u.status \in {3, 4}},
                                   request : UNION {LifecycleRequests(OwnInstance(t)) : t \in Threads},
                                   stage : {0}, stageOwner : {NoOwner}, out : {Denied}]] :
                   \A t \in Threads : f[t].request \in LifecycleRequests(OwnInstance(t))}
    /\ usr = NoUser
    /\ rnd = NoRender
    /\ clsdict = NoClsdict
    /\ pd = NoPd
    /\ frm = NoForm
    /\ Kyks = NoKyks
    /\ objs = NoObjs

NextConc ==
    \/ \E t \in Threads : Resolve(t)
    \/ \E t \in Threads : Allowed(t)
    \/ \E t \in Threads : Stage(t)
    \/ \E t \in Threads : Render(t)

SpecConc == InitConc /\ [][NextConc]_vars

(***************************************************************************)
(* C4: with two requests handled at the same time, each on its own model   *)
(* instance, every stage computation and every handler or button of a      *)
(* request uses that request's instance, never the one of the other        *)
(* request.                                                                *)
(***************************************************************************)
C4_OwnInstanceOnly ==
    \A t \in Threads :
        /\ thr[t].stageOwner \in {NoOwner, OwnInstance(t)}
        /\ thr[t].out.owner \in {NoOwner, OwnInstance(t)}

(***************************************************************************)
(* The user's status                                                       *)
(***************************************************************************)
AnonymousUser == [is_authenticated |-> FALSE, is_staff |-> FALSE, is_superuser |-> FALSE]

\* the accounts that can log in, by their privilege flags
Accounts == [is_authenticated : {TRUE}, is_staff : BOOLEAN, is_superuser : BOOLEAN]

\* an empty session; status 0 stands for no 'status' key
EmptySession == [is_human |-> FALSE, status |-> 0]

Min(x, y) == IF x <= y THEN x ELSE y

\* a set_user_status that takes the session's status as it is
set_user_status_unbounded(user, session) ==
    LET max_status ==
            IF ~user.is_authenticated
            THEN IF session.is_human THEN Status("HUMAN") ELSE Status("PUBLIC")
            ELSE IF user.is_superuser THEN Status("ADMINISTRATOR")
            ELSE IF user.is_staff THEN Status("AGENT")
            ELSE Status("USER")
    IN  [ max_status |-> max_status,
          status |-> IF session.status # 0 THEN session.status ELSE Min(Status("USER"), max_status) ]

\* a set_user_status that asks for is_staff before is_superuser
set_user_status_staff_first(user, session) ==
    LET max_status ==
            IF ~user.is_authenticated
            THEN IF session.is_human THEN Status("HUMAN") ELSE Status("PUBLIC")
            ELSE IF user.is_staff THEN Status("AGENT")
            ELSE IF user.is_superuser THEN Status("ADMINISTRATOR")
            ELSE Status("USER")
    IN  [ max_status |-> max_status,
          status |-> Min(IF session.status # 0 THEN session.status ELSE Status("USER"), max_status) ]

\* set_user_status: the max_status and the status it sets on the user
set_user_status(user, session) ==
    LET max_status ==
            IF ~user.is_authenticated
            THEN IF session.is_human THEN Status("HUMAN") ELSE Status("PUBLIC")
            ELSE IF user.is_superuser THEN Status("ADMINISTRATOR")
            ELSE IF user.is_staff THEN Status("AGENT")
            ELSE Status("USER")
    IN  [ max_status |-> max_status,
          status |-> Min(IF session.status # 0 THEN session.status ELSE Status("USER"), max_status) ]

\* ParameterDict.choices(maximum=...): the values a status form offers
choices(maximum) == {v \in StatusValues : v <= maximum}

SetOn(user, session, op) ==
    [ user |-> user, session |-> session, op |-> op,
      status |-> set_user_status(user, session).status,
      max_status |-> set_user_status(user, session).max_status ]

\* KykMiddleware.__call__: a request arrives; the user is the session's user
\* with the flags the database now holds, and the session holds the human
\* flag the host application has set or not
Middleware(flags, human) ==
    /\ usr.op # "none" /\ usr.user.is_authenticated => flags.is_authenticated
    /\ usr.op = "none" \/ ~usr.user.is_authenticated => flags = AnonymousUser
    /\ usr' = SetOn(flags,
                    [is_human |-> human,
                     status |-> IF usr.op = "none" THEN 0 ELSE usr.session.status],
                    "request")
    /\ UNCHANGED notUser

\* users.login: auth.login, which keeps the session of an anonymous visitor
\* and flushes the session of another account, then set_user_status
Login(account) ==
    /\ usr.op # "none"
    /\ usr' = SetOn(account,
                    IF usr.user.is_authenticated THEN EmptySession ELSE usr.session,
                    "login")
    /\ UNCHANGED notUser

\* users.logout: auth.logout, which flushes the session, then set_user_status
Logout ==
    /\ usr.op # "none"
    /\ usr' = SetOn(AnonymousUser, EmptySession, "logout")
    /\ UNCHANGED notUser

\* KykStatusForm with a valid choice, and its save
ChangeStatus(status) ==
    /\ usr.op # "none"
    /\ status \in choices(usr.max_status)
    /\ usr' = IF usr.status # status
              THEN SetOn(usr.user, [usr.session EXCEPT !.status = status], "status")
              ELSE [usr EXCEPT !.op = "status"]
    /\ UNCHANGED notUser

InitUser ==
    /\ dict = [a \in ActionObjs |-> InitDict(a)]
    /\ last = NoLast
    /\ probe = NoProbe
    /\ thr = NoThreads
    /\ usr = NoUser
    /\ rnd = NoRender
    /\ clsdict = NoClsdict
    /\ pd = NoPd
    /\ frm = NoForm
    /\ Kyks = NoKyks
    /\ objs = NoObjs

NextUser ==
    \/ \E f \in Accounts \cup {AnonymousUser}, h \in BOOLEAN : Middleware(f, h)
    \/ \E a \in Accounts : Login(a)
    \/ Logout
    \/ \E v \in StatusValues : ChangeStatus(v)

SpecUser == InitUser /\ [][NextUser]_vars

(***************************************************************************)
(* C8: after any sequence of requests, logins, logouts and status          *)
(* changes, the user's status is at most the maximal status that the       *)
(* user's authentication state and privilege flags give.                   *)
(***************************************************************************)
C8_StatusAtMostMax ==
    usr.op # "none" =>
        usr.status <=
            (IF ~usr.user.is_authenticated
             THEN (IF usr.session.is_human THEN 2 ELSE 1)
             ELSE IF usr.user.is_superuser THEN 7
             ELSE IF usr.user.is_staff THEN 6
             ELSE 3)

\* a superuser who chose ADMINISTRATOR has lost the flag by the next request
C8_Witness ==
    /\ usr.op = "request"
    /\ usr.session.status = 7
    /\ usr.user.is_authenticated /\ ~usr.user.is_superuser /\ ~usr.user.is_staff
    /\ usr.status = 3

(***************************************************************************)
(* C9: set_user_status sets max_status to HUMAN for an unauthenticated     *)
(* user with the is_human session flag and to PUBLIC without it, to        *)
(* ADMINISTRATOR for a superuser, to AGENT for staff that is no superuser, *)
(* to USER for any other authenticated user; and status to the minimum of  *)
(* max_status and the session's status, or USER when the session has none. *)
(***************************************************************************)
C9_SetUserStatus ==
    usr.op # "none" =>
        /\ ~usr.user.is_authenticated /\ usr.session.is_human => usr.max_status = Status("HUMAN")
        /\ ~usr.user.is_authenticated /\ ~usr.session.is_human => usr.max_status = Status("PUBLIC")
        /\ usr.user.is_authenticated /\ usr.user.is_superuser
              => usr.max_status = Status("ADMINISTRATOR")
        /\ usr.user.is_authenticated /\ usr.user.is_staff /\ ~usr.user.is_superuser
              => usr.max_status = Status("AGENT")
        /\ usr.user.is_authenticated /\ ~usr.user.is_staff /\ ~usr.user.is_superuser
              => usr.max_status = Status("USER")
        /\ usr.session.status = 0 /\ usr.max_status >= Status("USER") => usr.status = Status("USER")
        /\ usr.session.status = 0 /\ usr.max_status < Status("USER") => usr.status = usr.max_status
        /\ usr.session.status # 0 /\ usr.session.status <= usr.max_status
              => usr.status = usr.session.status
        /\ usr.session.status # 0 /\ usr.session.status > usr.max_status
              => usr.status = usr.max_status

\* a request of a user with both flags whose session stores STAFF
C9_Witness ==
    /\ usr.op = "request"
    /\ usr.user.is_staff /\ usr.user.is_superuser
    /\ usr.session.status = 5
    /\ usr.max_status = 7
    /\ usr.status = 5

(***************************************************************************)
(* safe_render                                                             *)
(***************************************************************************)
MaxReloads == 4

\* the default of the RELOADS argument
DefaultReloads == 3

RootKyks == {"home", "users"}

PageTemplates == {"page.html", "other.html"}

RedirectTargets == {".", "/docs/1/"}

\* truth value of a python object: None and the empty string are false
Truthy(v) == v # PyNone /\ v # ""

\* a loop that ignores the payload of the signal
or_second(a, b) == b

\* a or b
Or(a, b) == IF Truthy(a) THEN a ELSE b

\* Reload(kyk=None, template='')
Reload(kyk, template) == [kind |-> "Reload", kyk |-> kyk, template |-> template]

\* ReloadAsGet inherits the constructor of Reload
ReloadAsGet(kyk, template) == [kind |-> "ReloadAsGet", kyk |-> kyk, template |-> template]

NoSignal == [kind |-> "none", kyk |-> PyNone, template |-> ""]

ReloadKyks == RootKyks \cup {PyNone, ""}

ReloadTemplates == PageTemplates \cup {""}

\* the keyword arguments a redirect signal is raised with
RedirectKwargs == {<<>>, [permanent |-> TRUE], [permanent |-> FALSE]}

\* Redirection(*args, **kwargs) stores both
Redirection(args, kwargs) == [cls |-> "Redirection", args |-> args, kwargs |-> kwargs]

\* PermanentRedirection(*args, **kwargs): super(self, PermanentRedirection) has
\* its arguments in the wrong order, super() raises TypeError and no
\* signal is constructed
PermanentRedirection(args, kwargs) ==
    [cls |-> "TypeError", args |-> <<"super() argument 1 must be a type">>, kwargs |-> <<>>]

Http404 == [cls |-> "Http404", args |-> <<>>, kwargs |-> <<>>]

NoException == [cls |-> "none", args |-> <<>>, kwargs |-> <<>>]

NoResponse == [kind |-> "none"]

\* isinstance(exception, Redirection)
IsRedirection(exception) == exception.cls \in {"Redirection", "PermanentRedirection"}

\* a redirect that is always temporary
redirect_temporary(args, kwargs) ==
    [kind |-> "redirect", to |-> args[1], permanent |-> FALSE]

\* django.shortcuts.redirect(to, permanent=False)
redirect(args, kwargs) ==
    [kind |-> "redirect", to |-> args[1],
     permanent |-> IF "permanent" \in DOMAIN kwargs THEN kwargs.permanent ELSE FALSE]

\* RedirectionMiddleware.process_exception; None lets the exception propagate
process_exception(exception) ==
    IF IsRedirection(exception)
    THEN redirect(exception.args, exception.kwargs)
    ELSE [kind |-> "propagate", cls |-> exception.cls]

\* a loop that tries once more than range(RELOADS)
has_next_inclusive(it, RELOADS) == it <= RELOADS

\* a loop that tries twice more than range(RELOADS)
has_next_two_more(it, RELOADS) == it < RELOADS + 2

\* for it in range(RELOADS): whether the loop has another iteration
has_next(it, RELOADS) == it < RELOADS

\* a reload as GET that leaves the request as it is
as_get_unchanged(r) == r

\* a reload as GET that keeps the body
as_get_keeps_body(r) == [r EXCEPT !.method = "GET"]

\* request.method = 'GET'; request.POST = {}
as_get(r) == [r EXCEPT !.method = "GET", !.POST = {}]

\* kyk, template = reload.kyk or kyk, reload.template or template
caught(r, reload) ==
    [r EXCEPT !.it = @ + 1, !.attempts = @ + 1,
              !.sig = reload,
              !.prev = [kyk |-> r.kyk, template |-> r.template],
              !.kyk = Or(reload.kyk, r.kyk),
              !.template = Or(reload.template, r.template)]

\* render returns the response
RenderReturns ==
    /\ rnd.pc = "loop"
    /\ has_next(rnd.it, rnd.RELOADS)
    /\ rnd' = [rnd EXCEPT !.pc = "done", !.outcome = "response", !.attempts = @ + 1,
                          !.allReload = FALSE,
                          !.response = [kind |-> "body", attempt |-> rnd.attempts + 1,
                                        kyk |-> rnd.kyk, template |-> rnd.template]]
    /\ UNCHANGED notRender

\* render raises Reload(kyk, template)
RenderReload(kyk, template) ==
    /\ rnd.pc = "loop"
    /\ has_next(rnd.it, rnd.RELOADS)
    /\ rnd' = caught(rnd, Reload(kyk, template))
    /\ UNCHANGED notRender

\* render raises ReloadAsGet(kyk, template)
RenderReloadAsGet(kyk, template) ==
    /\ rnd.pc = "loop"
    /\ has_next(rnd.it, rnd.RELOADS)
    /\ rnd' = [caught(as_get(rnd), ReloadAsGet(kyk, template)) EXCEPT !.asGet = TRUE]
    /\ UNCHANGED notRender

\* render raises Redirection(target, **kwargs), which safe_render does not catch
RenderRedirects(target, kwargs) ==
    /\ rnd.pc = "loop"
    /\ has_next(rnd.it, rnd.RELOADS)
    /\ rnd' = [rnd EXCEPT !.pc = "done", !.outcome = "Redirection", !.attempts = @ + 1,
                          !.allReload = FALSE,
                          !.raised = [cls |-> "Redirection", args |-> <<target>>,
                                      kwargs |-> kwargs],
                          !.exc = Redirection(<<target>>, kwargs)]
    /\ UNCHANGED notRender

\* a template evaluates raise PermanentRedirection(target)
RenderRedirectsPermanently(target) ==
    /\ rnd.pc = "loop"
    /\ has_next(rnd.it, rnd.RELOADS)
    /\ rnd' = [rnd EXCEPT !.pc = "done", !.attempts = @ + 1,
                          !.allReload = FALSE,
                          !.raised = [cls |-> "PermanentRedirection", args |-> <<target>>,
                                      kwargs |-> <<>>],
                          !.exc = PermanentRedirection(<<target>>, <<>>),
                          !.outcome = PermanentRedirection(<<target>>, <<>>).cls]
    /\ UNCHANGED notRender

\* the else clause of the loop: raise Http404
Exhausted ==
    /\ rnd.pc = "loop"
    /\ ~has_next(rnd.it, rnd.RELOADS)
    /\ rnd' = [rnd EXCEPT !.pc = "done", !.outcome = "Http404", !.exc = Http404]
    /\ UNCHANGED notRender

\* the exception leaves the view and the middleware is asked about it
ProcessException ==
    /\ rnd.pc = "done"
    /\ rnd.exc # NoException
    /\ rnd.response = NoResponse
    /\ rnd' = [rnd EXCEPT !.response = process_exception(rnd.exc)]
    /\ UNCHANGED notRender

\* the requests safe_render is called with: a GET has an empty body
RenderRequests ==
    { [method |-> "GET", POST |-> {}], [method |-> "POST", POST |-> {"app.Doc-1-kyk_edit"}] }

InitRender ==
    /\ dict = [a \in ActionObjs |-> InitDict(a)]
    /\ last = NoLast
    /\ probe = NoProbe
    /\ thr = NoThreads
    /\ usr = NoUser
    /\ clsdict = NoClsdict
    /\ pd = NoPd
    /\ frm = NoForm
    /\ Kyks = NoKyks
    /\ objs = NoObjs
    /\ \E RELOADS \in (0..MaxReloads) \cup {DefaultReloads}, kyk \in RootKyks,
          template \in PageTemplates, request \in RenderRequests :
          rnd = [pc |-> "loop", it |-> 0, attempts |-> 0, outcome |-> "none",
                 allReload |-> TRUE, RELOADS |-> RELOADS,
                 kyk |-> kyk, template |-> template,
                 method |-> request.method, POST |-> request.POST,
                 sig |-> NoSignal, prev |-> [kyk |-> kyk, template |-> template],
                 orig |-> [kyk |-> kyk, template |-> template], asGet |-> FALSE,
                 raised |-> NoException, exc |-> NoException, response |-> NoResponse]

NextRender ==
    \/ RenderReturns
    \/ \E k \in ReloadKyks, t \in ReloadTemplates : RenderReload(k, t)
    \/ \E k \in ReloadKyks, t \in ReloadTemplates : RenderReloadAsGet(k, t)
    \/ \E target \in RedirectTargets, kwargs \in RedirectKwargs : RenderRedirects(target, kwargs)
    \/ \E target \in RedirectTargets : RenderRedirectsPermanently(target)
    \/ Exhausted
    \/ ProcessException

SpecRender == InitRender /\ [][NextRender]_vars

\* every call of render returns or raises, and the middleware answers
SpecRenderLive == SpecRender /\ WF_vars(NextRender)

(***************************************************************************)
(* C10: when every render attempt raises a reload signal, safe_render      *)
(* makes exactly RELOADS attempts (3 by default), never fewer and never    *)
(* more, and then ends with Http404.                                       *)
(***************************************************************************)
C10_ExactlyReloadsAttempts ==
    rnd.allReload =>
        /\ rnd.attempts <= rnd.RELOADS
        /\ rnd.pc = "done" => rnd.attempts = rnd.RELOADS /\ rnd.outcome = "Http404"
        /\ rnd.pc = "loop" /\ rnd.attempts = rnd.RELOADS => ENABLED Exhausted

\* the default three attempts, all reloads, ended with Http404
C10_Witness ==
    /\ rnd.pc = "done"
    /\ rnd.allReload
    /\ rnd.RELOADS = DefaultReloads
    /\ rnd.attempts = 3
    /\ rnd.outcome = "Http404"

(***************************************************************************)
(* C11: safe_render always terminates; whatever signals the attempts       *)
(* raise it makes at most RELOADS render attempts, and the first attempt   *)
(* that raises no signal ends it: its output is returned and no further    *)
(* attempt is made.                                                        *)
(***************************************************************************)
C11_Terminates ==
    /\ <>(rnd.pc = "done")
    /\ [](rnd.attempts <= rnd.RELOADS)
    /\ [](rnd.outcome = "response" =>
            /\ rnd.pc = "done"
            /\ rnd.response = [kind |-> "body", attempt |-> rnd.attempts,
                               kyk |-> rnd.kyk, template |-> rnd.template]
            /\ rnd.attempts = rnd.it + 1)
    /\ [][rnd.pc = "done" => rnd'.attempts = rnd.attempts /\ rnd'.it = rnd.it]_vars

\* two reloads and then the third attempt returns
C11_Witness ==
    /\ rnd.outcome = "response"
    /\ rnd.attempts = 3
    /\ rnd.RELOADS = 4
    /\ rnd.sig.kind = "Reload"

C13_ReloadAsGet ==
    /\ [](rnd.pc # "none" /\ rnd.asGet => rnd.method = "GET" /\ rnd.POST = {})
    /\ [][/\ (rnd'.it = rnd.it + 1 /\ rnd'.sig.kind = "ReloadAsGet")
                => rnd'.method = "GET" /\ rnd'.POST = {}
          /\ (rnd'.it = rnd.it + 1 /\ rnd'.sig.kind = "Reload")
                => rnd'.method = rnd.method /\ rnd'.POST = rnd.POST]_vars

\* a POST whose first attempt raised ReloadAsGet and whose second raised Reload
C13_Witness ==
    /\ rnd.pc = "loop"
    /\ rnd.it = 2
    /\ rnd.asGet
    /\ rnd.sig.kind = "Reload"
    /\ rnd.method = "GET"
    /\ rnd.POST = {}

(***************************************************************************)
(* C14: a Redirection raised by a render attempt leaves safe_render on     *)
(* that attempt, nothing is retried, and the middleware answers with a     *)
(* redirect to the target of the signal with its permanent flag (false     *)
(* when the signal has none); any other exception is not answered with a   *)
(* redirect.                                                               *)
(***************************************************************************)
C14_RedirectionPropagates ==
    /\ [](rnd.pc # "none" /\ rnd.raised.cls = "Redirection" =>
            /\ rnd.pc = "done"
            /\ rnd.exc = rnd.raised
            /\ rnd.attempts = rnd.it + 1
            /\ rnd.response # NoResponse =>
                  rnd.response = [kind |-> "redirect", to |-> rnd.raised.args[1],
                                  permanent |-> rnd.raised.kwargs = [permanent |-> TRUE]])
    /\ [](rnd.pc # "none" /\ rnd.exc.cls \notin {"none", "Redirection"}
            /\ rnd.response # NoResponse => rnd.response.kind = "propagate")
    /\ [][rnd.pc # "none" /\ rnd.raised.cls = "Redirection"
            => rnd'.attempts = rnd.attempts /\ rnd'.it = rnd.it]_vars

\* the second attempt raised Redirection(target, permanent=True) and the
\* middleware answered
C14_Witness ==
    /\ rnd.pc = "done"
    /\ rnd.attempts = 2
    /\ rnd.raised.cls = "Redirection"
    /\ rnd.response.kind = "redirect"
    /\ rnd.response.permanent

(***************************************************************************)
(* C15: raise PermanentRedirection(target) produces a redirect signal with *)
(* that target and permanent = True, and the middleware answers with a     *)
(* permanent redirect to the target.                                       *)
(***************************************************************************)
C15_PermanentRedirection ==
    rnd.pc # "none" /\ rnd.raised.cls = "PermanentRedirection" =>
        /\ IsRedirection(rnd.exc)
        /\ rnd.exc.args = rnd.raised.args
        /\ rnd.exc.kwargs = [permanent |-> TRUE]
        /\ rnd.response # NoResponse =>
              rnd.response = [kind |-> "redirect", to |-> rnd.raised.args[1],
                              permanent |-> TRUE]

(***************************************************************************)
(* The list component: KykList.kyk_in                                      *)
(***************************************************************************)
MaxCount == 5

MaxSize == 3

\* the defaults of the index and size arguments of KykList.kyk_in
DefaultIndex == 0

DefaultSize == 20

\* the ordered query: the item at position i (from 0) is written i
Query(count) == [i \in 1..count |-> i - 1]

ListCounts == (0..MaxCount) \cup {45}

\* the values of the index and size parameters of the read request
ListIndexes == (0..(MaxCount + 1)) \cup {20, 40}

ListSizes == (1..MaxSize) \cup {DefaultSize}

\* request.GET with each of the two parameters present or absent
ListQueries ==
    {<<>>} \cup {[index |-> i] : i \in ListIndexes} \cup {[size |-> sz] : sz \in ListSizes}
           \cup {[index |-> i, size |-> sz] : i \in ListIndexes, sz \in ListSizes}

\* int(request.GET.get(name, default)) for a parameter that is absent or
\* holds the digits of an integer
QueryInt(GET, name, default) == IF name \in DOMAIN GET THEN GET[name] ELSE default

\* kyk_list[lo:hi] for 0 <= lo
Slice(q, lo, hi) == SubSeq(q, lo + 1, Min(hi, Len(q)))

\* a list that offers a next page that would be empty
KykList_kyk_in_inclusive(GET, kyk_list) ==
    LET index == QueryInt(GET, "index", DefaultIndex)
        size == QueryInt(GET, "size", DefaultSize)
        previous == index - size
        previous_index == IF previous < 0 /\ 0 < index THEN 0 ELSE previous
        next_index == index + size
    IN  IF next_index <= Len(kyk_list)
        THEN [previous_index |-> previous_index, next_index |-> next_index, size |-> size,
              kyk_list |-> Slice(kyk_list, index, next_index)]
        ELSE [previous_index |-> previous_index, next_index |-> 0, size |-> size,
              kyk_list |-> Slice(kyk_list, index, Len(kyk_list))]

\* a list whose page runs one item into the next page
KykList_kyk_in_overlap(GET, kyk_list) ==
    LET index == QueryInt(GET, "index", DefaultIndex)
        size == QueryInt(GET, "size", DefaultSize)
        previous == index - size
        previous_index == IF previous < 0 /\ 0 < index THEN 0 ELSE previous
        next_index == index + size
    IN  IF next_index < Len(kyk_list)
        THEN [previous_index |-> previous_index, next_index |-> next_index, size |-> size,
              kyk_list |-> Slice(kyk_list, index, next_index + 1)]
        ELSE [previous_index |-> previous_index, next_index |-> 0, size |-> size,
              kyk_list |-> Slice(kyk_list, index, Len(kyk_list))]

\* KykList.kyk_in: the context it returns with the template
KykList_kyk_in(GET, kyk_list) ==
    LET index == QueryInt(GET, "index", DefaultIndex)
        size == QueryInt(GET, "size", DefaultSize)
        previous == index - size
        previous_index == IF previous < 0 /\ 0 < index THEN 0 ELSE previous
        next_index == index + size
    IN  IF next_index < Len(kyk_list)
        THEN [previous_index |-> previous_index, next_index |-> next_index, size |-> size,
              kyk_list |-> Slice(kyk_list, index, next_index)]
        ELSE [previous_index |-> previous_index, next_index |-> 0, size |-> size,
              kyk_list |-> Slice(kyk_list, index, Len(kyk_list))]

\* {% kykin kyk %} on a KykList whose query has count items
ListKykIn(GET, count) ==
    /\ last' = [op |-> "KykList.kyk_in",
                index |-> QueryInt(GET, "index", DefaultIndex),
                size |-> QueryInt(GET, "size", DefaultSize),
                count |-> count,
                out |-> KykList_kyk_in(GET, Query(count))]
    /\ UNCHANGED notList

InitList ==
    /\ dict = [a \in ActionObjs |-> InitDict(a)]
    /\ last = NoLast
    /\ probe = NoProbe
    /\ thr = NoThreads
    /\ usr = NoUser
    /\ rnd = NoRender
    /\ clsdict = NoClsdict
    /\ pd = NoPd
    /\ frm = NoForm
    /\ Kyks = NoKyks
    /\ objs = NoObjs

NextList ==
    \E GET \in ListQueries, count \in ListCounts : ListKykIn(GET, count)

SpecList == InitList /\ [][NextList]_vars

(***************************************************************************)
(* C18: for every index >= 0 and size >= 1 the previous_index of the list  *)
(* is max(0, index - size); it is 0 at index 0 and wherever index < size.  *)
(***************************************************************************)
C18_PreviousIndex ==
    last.op = "KykList.kyk_in" /\ last.index >= 0 /\ last.size >= 1 =>
        last.out.previous_index = (IF last.index - last.size > 0
                                   THEN last.index - last.size ELSE 0)

(***************************************************************************)
(* C19: next_index is index + size when that is smaller than the count of  *)
(* the query and 0 otherwise, and the page holds exactly the items at      *)
(* positions index .. min(index + size, count) - 1 of the ordered query,   *)
(* in their order.                                                         *)
(***************************************************************************)
C19_NextIndexAndPage ==
    last.op = "KykList.kyk_in" =>
        LET end == Min(last.index + last.size, last.count)
        IN  /\ last.out.next_index = (IF last.index + last.size < last.count
                                      THEN last.index + last.size ELSE 0)
            /\ last.out.kyk_list = [i \in 1..(end - last.index) |-> last.index + i - 1]

\* count = 45, index = 40, size = 20: no next page and a page of 5 items
C19_Witness ==
    /\ last.op = "KykList.kyk_in"
    /\ last.count = 45
    /\ last.index = 40
    /\ last.size = 20
    /\ last.out.next_index = 0
    /\ last.out.kyk_list = <<40, 41, 42, 43, 44>>

(***************************************************************************)
(* The Kyks registry                                                       *)
(***************************************************************************)
MaxObjs == 3

\* the keys components are registered under; kykdict takes every key a dict
\* takes, the empty string and a string of digits included
RegistryKeys == {"Users", "users", "", "42"}

\* key.isdigit()
IsNumeric(key) == key \in {"42"}

\* kykdict.__setitem__ on registry K and objects O
kykdict_setitem(K, O, key, val) ==
    [Kyks |-> (key :> val) @@ K,
     objs |-> [O EXCEPT ![val].kyk_Kyks_key = key]]

\* what a registration leaves in last; neither kykdict.__setitem__ nor its
\* callers raise or warn
Registered(via, key, val) ==
    [op |-> "register", via |-> via, key |-> key, obj |-> val,
     duplicate |-> key \in DOMAIN Kyks,
     before |-> IF key \in DOMAIN Kyks THEN Kyks[key] ELSE 0,
     reported |-> FALSE]

\* Kyks[key] = val for a component object that exists already
SetItem(key, val) ==
    /\ Kyks' = kykdict_setitem(Kyks, objs, key, val).Kyks
    /\ objs' = kykdict_setitem(Kyks, objs, key, val).objs
    /\ last' = Registered("setitem", key, val)
    /\ UNCHANGED notRegistry

\* KykSimple(name, template)
KykSimple_init(name) ==
    /\ Len(objs) < MaxObjs
    /\ LET self == Len(objs) + 1
           made == Append(objs, [cls |-> "KykSimple", identifier |-> name,
                                 kyk_Kyks_key |-> PyNone])
       IN  /\ Kyks' = kykdict_setitem(Kyks, made, name, self).Kyks
           /\ objs' = kykdict_setitem(Kyks, made, name, self).objs
           /\ last' = Registered("KykSimple", name, self)
    /\ UNCHANGED notRegistry

\* @append2Kyks(name) and @append2Kyks on a component class; the name is the
\* given one or cls.__name__
append2Kyks(name, cls) ==
    /\ Len(objs) < MaxObjs
    /\ LET key == IF name = PyNone THEN cls ELSE name
           kyk == Len(objs) + 1
           made == Append(objs, [cls |-> cls, identifier |-> key, kyk_Kyks_key |-> PyNone])
       IN  /\ Kyks' = kykdict_setitem(Kyks, made, key, kyk).Kyks
           /\ objs' = kykdict_setitem(Kyks, made, key, kyk).objs
           /\ last' = Registered("append2Kyks", key, kyk)
    /\ UNCHANGED notRegistry

\* the registry after the import of the models package: @Kyks.append on Users
\* and Kyks['users'] = Users()
InitRegistry ==
    /\ dict = [a \in ActionObjs |-> InitDict(a)]
    /\ last = NoLast
    /\ probe = NoProbe
    /\ thr = NoThreads
    /\ usr = NoUser
    /\ rnd = NoRender
    /\ clsdict = NoClsdict
    /\ pd = NoPd
    /\ frm = NoForm
    /\ Kyks = [k \in {"Users", "users"} |-> IF k = "Users" THEN 1 ELSE 2]
    /\ objs = << [cls |-> "Users", identifier |-> "Users", kyk_Kyks_key |-> "Users"],
                 [cls |-> "Users", identifier |-> PyNone, kyk_Kyks_key |-> "users"] >>

NextRegistry ==
    \/ \E key \in RegistryKeys, val \in DOMAIN objs : SetItem(key, val)
    \/ \E name \in RegistryKeys : KykSimple_init(name)
    \/ \E name \in RegistryKeys \cup {PyNone} : append2Kyks(name, "Users")

SpecRegistry == InitRegistry /\ [][NextRegistry]_vars

(***************************************************************************)
(* C20: registering a second component under a key that is registered      *)
(* already is reported at once, by an error or a warning, and the          *)
(* component registered first stays in the registry.                       *)
(***************************************************************************)
C20_DuplicateReported ==
    last.op = "register" /\ last.duplicate /\ last.obj # last.before =>
        /\ last.reported
        /\ Kyks[last.key] = last.before

(***************************************************************************)
(* C21: every key of the registry is a non-empty, non-numeric string; a    *)
(* registration under an empty or numeric key is rejected and leaves the   *)
(* registry as it was.                                                     *)
(***************************************************************************)
C21_KeysValid ==
    /\ \A key \in DOMAIN Kyks : key # "" /\ ~IsNumeric(key)
    /\ last.op = "register" /\ (last.key = "" \/ IsNumeric(last.key)) =>
          last.reported /\ last.key \notin DOMAIN Kyks

(***************************************************************************)
(* Identifiers of model classes that inherit from one another              *)
(***************************************************************************)
\* app.Report is a model class derived from the model class app.Doc
ModelClasses == {"app.Doc", "app.Report", "app.Note"}

\* the classes of the method resolution order of c below KykModel, on which
\* the kyk_Identifier descriptor is defined
Mro(c) == IF c = "app.Report" THEN <<"app.Report", "app.Doc">> ELSE <<c>>

\* the first class of the method resolution order that has the attribute in
\* its own __dict__, or PyNone when only the descriptor of KykModel is found
Cached(cd, c) ==
    LET hits == {i \in 1..Len(Mro(c)) : cd[Mro(c)[i]] # PyNone}
    IN  IF hits = {} THEN PyNone
        ELSE cd[Mro(c)[CHOOSE i \in hits : \A j \in hits : i <= j]]

\* cls.kyk_Identifier: the attribute found in the method resolution order, or
\* cached_classproperty.__get__, which computes the label and stores it on cls
cached_classproperty_get(cd, c) ==
    IF Cached(cd, c) # PyNone
    THEN [value |-> Cached(cd, c), clsdict |-> cd]
    ELSE [value |-> kyk_Identifier(c), clsdict |-> [cd EXCEPT ![c] = kyk_Identifier(c)]]

\* KykModelIdentifier.__get__ with the class attribute read through the class
KykModelIdentifier_get(cd, o) ==
    LET r == cached_classproperty_get(cd, o.cls)
    IN  [value |-> IF o.kind = "instance"
                   THEN r.value \o "-" \o ToString(o.pk)
                   ELSE r.value,
         clsdict |-> r.clsdict]

\* cls.kyk_Identifier
ReadClassIdentifier(c) ==
    /\ clsdict' = cached_classproperty_get(clsdict, c).clsdict
    /\ last' = [op |-> "kyk_Identifier", cls |-> c, pk |-> 0,
                out |-> cached_classproperty_get(clsdict, c).value,
                ids |-> last.ids]
    /\ UNCHANGED notClass

\* instance.kyk_identifier of the saved instance pk of class c; ids keeps the
\* identifier each instance had when it was first read
ReadInstanceIdentifier(c, pk) ==
    LET r == KykModelIdentifier_get(clsdict, InstanceRef(c, pk))
    IN  /\ clsdict' = r.clsdict
        /\ last' = [op |-> "kyk_identifier", cls |-> c, pk |-> pk, out |-> r.value,
                    ids |-> IF <<c, pk>> \in DOMAIN last.ids THEN last.ids
                            ELSE (<<c, pk>> :> r.value) @@ last.ids]
        /\ UNCHANGED notClass

InitIdentifier ==
    /\ dict = [a \in ActionObjs |-> InitDict(a)]
    /\ last = [op |-> "none", ids |-> <<>>]
    /\ probe = NoProbe
    /\ thr = NoThreads
    /\ usr = NoUser
    /\ rnd = NoRender
    /\ clsdict = [c \in ModelClasses |-> PyNone]
    /\ pd = NoPd
    /\ frm = NoForm
    /\ Kyks = NoKyks
    /\ objs = NoObjs

NextIdentifier ==
    \/ \E c \in ModelClasses : ReadClassIdentifier(c)
    \/ \E c \in ModelClasses, pk \in 1..MaxPk : ReadInstanceIdentifier(c, pk)

SpecIdentifier == InitIdentifier /\ [][NextIdentifier]_vars

(***************************************************************************)
(* C22: the identifier of a saved instance is the label of its class, a    *)
(* dash and its primary key; every read gives the identifier of the first  *)
(* read; and two instances that differ in class or in primary key have     *)
(* different identifiers.                                                  *)
(***************************************************************************)
C22_InstanceIdentifier ==
    last.op \in {"kyk_Identifier", "kyk_identifier"} =>
        /\ \A i \in DOMAIN last.ids : last.ids[i] = i[1] \o "-" \o ToString(i[2])
        /\ last.op = "kyk_identifier" => last.out = last.ids[<<last.cls, last.pk>>]
        /\ \A i, j \in DOMAIN last.ids : i # j => last.ids[i] # last.ids[j]

(***************************************************************************)
(* C29: the class identifier read from a model class is the label of that  *)
(* class, in whatever order the identifiers of the class and of its parent *)
(* classes were read before; a subclass never gives the label cached for   *)
(* its parent.                                                             *)
(***************************************************************************)
C29_ClassIdentifier ==
    last.op = "kyk_Identifier" => last.out = last.cls

(***************************************************************************)
(* The form handlers of a model: kyk_process_form, kyk_create, kyk_edit    *)
(* and kyk_delete, on the saved records of the model class app.Doc         *)
(***************************************************************************)
MaxRecords == 3

\* the redirection argument: None, 'new' or a target
FormRedirections == {PyNone, "new", ".", "/docs/"}

\* the default of the redirection argument of kyk_process_form
DefaultRedirection == "."

\* the primary key the database gives the next new record
NewPk(db) == CHOOSE n \in 1..(MaxRecords + 1) : n \notin db /\ \A i \in 1..(n - 1) : i \in db

\* kyk_post_save: the kyk itself, or a redirect signal to the kyk or the target
kyk_post_save(kyk, redirection) ==
    IF redirection = PyNone
    THEN [kind |-> "kyk", kyk |-> kyk]
    ELSE IF redirection = "new"
         THEN [kind |-> "raise", exc |-> Redirection(<<kyk>>, <<>>)]
         ELSE [kind |-> "raise", exc |-> Redirection(<<redirection>>, <<>>)]

\* a handler that saves the form before it looks whether it is valid
kyk_process_form_saves_first(c, db, data, valid, subm, redirection, instance) ==
    LET pk == IF instance # 0 THEN instance ELSE NewPk(db)
    IN  IF data.bound /\ valid
        THEN [out |-> kyk_post_save(kyk_identifier(InstanceRef(c, pk)), redirection),
              db |-> db \cup {pk}, saves |-> 1]
        ELSE [out |-> [kind |-> "form", template |-> "FORM", submitter |-> subm,
                       form |-> [bound |-> data.bound, errors |-> data.bound]],
              db |-> db \cup {pk}, saves |-> 1]

\* KykModel.kyk_process_form on the records db; data.bound is false for
\* data=None, valid says whether bound data passes validation, instance is
\* the primary key of the edited record or 0
kyk_process_form(c, db, data, valid, subm, redirection, instance) ==
    IF data.bound /\ valid
    THEN LET pk == IF instance # 0 THEN instance ELSE NewPk(db)
         IN  [out |-> kyk_post_save(kyk_identifier(InstanceRef(c, pk)), redirection),
              db |-> db \cup {pk}, saves |-> 1]
    ELSE [out |-> [kind |-> "form", template |-> "FORM", submitter |-> subm,
                   form |-> [bound |-> data.bound, errors |-> data.bound]],
          db |-> db, saves |-> 0]

\* KykModel.kyk_create
kyk_create(c, db, data, valid, subm) ==
    kyk_process_form(c, db, data, valid, subm, DefaultRedirection, 0)

\* an edit that forgets the instance and saves a new record
kyk_edit_creates(o, db, data, valid, subm) ==
    kyk_process_form(o.cls, db, data, valid, subm, DefaultRedirection, 0)

\* KykModel.kyk_edit
kyk_edit(o, db, data, valid, subm) ==
    kyk_process_form(o.cls, db, data, valid, subm, DefaultRedirection, o.pk)

\* a delete that takes every POST for the confirmation
kyk_delete_any_post(o, db, K, request, redirection, stage, conflict) ==
    IF request.method = "POST"
    THEN [out |-> [kind |-> "raise", exc |-> Redirection(<<".">>, <<>>)],
          db |-> db \ {o.pk}, delete_called |-> TRUE]
    ELSE [out |-> [kind |-> "empty"], db |-> db, delete_called |-> FALSE]

\* a delete that redirects whether or not the record could be deleted
kyk_delete_redirects(o, db, K, request, redirection, stage, conflict) ==
    [out |-> [kind |-> "raise", exc |-> Redirection(<<".">>, <<>>)],
     db |-> db, delete_called |-> TRUE]

\* KykModel.kyk_delete behind its access check; K is the registry, conflict
\* says whether self.delete() raises IntegrityError.  The button is built by
\* the KykGetButton of base.py, which has no design argument.
kyk_delete(o, db, K, request, redirection, stage, conflict) ==
    LET id == kyk_identifier(o)
        sub == id \o "-" \o "Delete"
        fall == IF stage <= 1
                THEN [kind |-> "raise",
                      exc |-> [cls |-> "TypeError",
                               args |-> <<"unexpected keyword argument 'design'">>,
                               kwargs |-> <<>>]]
                ELSE [kind |-> "empty"]
    IN  IF request.method = "GET" /\ QueryGet(request, "Delete") = id
        THEN IF stage = 1
             THEN [out |-> fall, db |-> db, delete_called |-> FALSE]
             ELSE [out |-> [kind |-> "form", template |-> "FORM", submitter |-> sub],
                   db |-> db, delete_called |-> FALSE]
        ELSE IF request.method = "POST" /\ sub \in request.POST
             THEN IF stage = 1
                  THEN [out |-> fall, db |-> db, delete_called |-> FALSE]
                  ELSE IF redirection = PyNone /\ "home" \notin DOMAIN K
                       THEN [out |-> [kind |-> "raise",
                                      exc |-> [cls |-> "KeyError", args |-> <<"home">>,
                                               kwargs |-> <<>>]],
                             db |-> db, delete_called |-> FALSE]
                       ELSE IF conflict
                            THEN [out |-> [kind |-> "alert"], db |-> db,
                                  delete_called |-> TRUE]
                            ELSE [out |-> [kind |-> "raise",
                                           exc |-> Redirection(
                                               <<IF redirection = PyNone
                                                 THEN "Kyks[home]" ELSE redirection>>, <<>>)],
                                  db |-> db \ {o.pk}, delete_called |-> TRUE]
             ELSE [out |-> fall, db |-> db, delete_called |-> FALSE]

\* the arguments a call did not get
NoCall ==
    [op |-> "none", a |-> "", bound |-> FALSE, valid |-> FALSE, subm |-> "",
     redirection |-> PyNone, instance |-> 0, stage |-> 0, conflict |-> FALSE,
     called |-> FALSE, request |-> [method |-> "GET", GET |-> {}, POST |-> {}], before |-> {}]

\* the request a client sends next in the lifecycle of a ButtonAction: a
\* plain read, then the link of the rendered button, then the rendered form
LifecycleRequest(a) ==
    IF frm.pc = "button" /\ frm.call.a = a
    THEN [method |-> "GET",
          GET |-> {<<ActionDefs[a].name, kyk_identifier(frm.out.owner)>>}, POST |-> {}]
    ELSE IF frm.pc = "form" /\ frm.call.a = a
         THEN [method |-> "POST", GET |-> {}, POST |-> {frm.out.submitter}]
         ELSE [method |-> "GET", GET |-> {}, POST |-> {}]

\* one request of an editor that renders kyk.kyk_create or kyk.kyk_edit with
\* the kykin tag: Action.__get__, ButtonAction.kyk_in and, from PRESENT_FORM
\* on, the handler
Lifecycle(a, o, valid) ==
    \E request \in {LifecycleRequest(a)} :
    LET r == (ButtonAction_kyk_in(a, request, 0, ""))'
        res == IF a = "kyk_create"
               THEN kyk_create(r.owner.cls, frm.db, [bound |-> r.bound, body |-> r.data],
                               valid, r.submitter)
               ELSE kyk_edit(r.owner, frm.db, [bound |-> r.bound, body |-> r.data],
                             valid, r.submitter)
    IN  /\ frm.pc \in {"button", "form"} => (frm.call.a = a /\ frm.o = o)
        /\ a = "kyk_create" => (o.kind = "class" /\ Cardinality(frm.db) < MaxRecords)
        /\ a = "kyk_edit" => (o.kind = "instance" /\ o.pk \in frm.db)
        /\ valid => frm.pc = "form"
        /\ dict' = [dict EXCEPT ![a] = ("kyk" :> o) @@ kyk_STATUS(a).self]
        /\ frm' = IF r.kind = "button"
                  THEN [pc |-> "button", o |-> o, db |-> frm.db, out |-> r, saves |-> 0,
                        call |-> [NoCall EXCEPT !.op = "kyk_in", !.a = a,
                                                !.request = request, !.stage = r.stage,
                                                !.before = frm.db]]
                  ELSE [pc |-> IF res.saves > 0 THEN "done" ELSE "form",
                        o |-> o, db |-> res.db, out |-> res.out, saves |-> res.saves,
                        call |-> [NoCall EXCEPT !.op = "kyk_process_form", !.a = a,
                                                !.request = request, !.stage = r.stage,
                                                !.bound = r.bound, !.valid = valid,
                                                !.subm = r.submitter,
                                                !.redirection = DefaultRedirection,
                                                !.instance = o.pk, !.before = frm.db]]
        /\ UNCHANGED <<last, probe, thr, usr, rnd, Kyks, objs, clsdict, pd>>

FormSubmitters == {"app.Doc-kyk_create", "app.Doc-1-kyk_edit"}

\* cls.kyk_process_form called by a handler of the application
ProcessForm(bound, valid, subm, redirection, instance) ==
    LET res == kyk_process_form("app.Doc", frm.db, [bound |-> bound, body |-> {}],
                                valid, subm, redirection, instance)
    IN  /\ instance = 0 => Cardinality(frm.db) < MaxRecords
        /\ instance # 0 => instance \in frm.db
        /\ valid => bound
        /\ frm' = [pc |-> "called", o |-> ClassRef("app.Doc"), db |-> res.db,
                   out |-> res.out, saves |-> res.saves,
                   call |-> [NoCall EXCEPT !.op = "kyk_process_form", !.bound = bound,
                                           !.valid = valid, !.subm = subm,
                                           !.redirection = redirection,
                                           !.instance = instance, !.before = frm.db]]
        /\ UNCHANGED notForm

\* the requests of the delete of instance o
DeleteRequests(o) ==
    { [method |-> "GET", GET |-> {}, POST |-> {}],
      [method |-> "GET", GET |-> {<<"Delete", kyk_identifier(o)>>}, POST |-> {}],
      [method |-> "POST", GET |-> {}, POST |-> {kyk_identifier(o) \o "-" \o "Delete"}] }

DeleteRedirections == {PyNone, "/docs/"}

\* kyk.kyk_delete rendered for an editor
Delete(o, request, redirection, stage, conflict) ==
    LET res == kyk_delete(o, frm.db, Kyks, request, redirection, stage, conflict)
    IN  /\ o.pk \in frm.db
        /\ frm' = [pc |-> "deleted", o |-> o, db |-> res.db, out |-> res.out, saves |-> 0,
                   call |-> [NoCall EXCEPT !.op = "kyk_delete", !.request = request,
                                           !.redirection = redirection, !.stage = stage,
                                           !.conflict = conflict /\ res.delete_called,
                                           !.called = res.delete_called,
                                           !.instance = o.pk, !.before = frm.db]]
        /\ UNCHANGED notForm

InitForm ==
    /\ dict = [a \in ActionObjs |-> InitDict(a)]
    /\ last = NoLast
    /\ probe = NoProbe
    /\ thr = NoThreads
    /\ usr = NoUser
    /\ rnd = NoRender
    /\ clsdict = NoClsdict
    /\ pd = NoPd
    /\ objs = NoObjs
    /\ Kyks \in {NoKyks, [k \in {"home"} |-> 1]}
    /\ frm = [pc |-> "start", o |-> ClassRef("app.Doc"), db |-> {1}, out |-> [kind |-> "empty"],
              saves |-> 0, call |-> NoCall]

NextForm ==
    \/ \E a \in {"kyk_create", "kyk_edit"}, o \in ModelOwners, valid \in BOOLEAN :
           Lifecycle(a, o, valid)
    \/ \E bound \in BOOLEAN, valid \in BOOLEAN, subm \in FormSubmitters,
          redirection \in FormRedirections, instance \in 0..MaxRecords :
           ProcessForm(bound, valid, subm, redirection, instance)
    \/ \E o \in Instances, request \in DeleteRequests(InstanceRef("app.Doc", 1)),
          redirection \in DeleteRedirections, stage \in 0..2, conflict \in BOOLEAN :
           Delete(o, request, redirection, stage, conflict)

SpecForm == InitForm /\ [][NextForm]_vars

\* KykNode.render: html.conditional_escape turns what the tag got into a
\* string; a (template, context) pair was rendered by kykin before
conditional_escape(content) ==
    IF content.kind = "kyk"
    THEN [kind |-> "string", text |-> content.kyk]
    ELSE content

\* C23: kyk_process_form with bound data that fails validation returns the
\* form template and a context with the same submitter key and the form with
\* its messages; no record is saved and nothing is raised.
C23_InvalidForm ==
    (frm.call.op = "kyk_process_form" /\ frm.call.bound /\ ~frm.call.valid)
        => /\ frm.out.kind = "form"
           /\ frm.out.template = "FORM"
           /\ frm.out.submitter = frm.call.subm
           /\ frm.out.form.bound /\ frm.out.form.errors
           /\ frm.saves = 0
           /\ frm.db = frm.call.before

C23_Witness ==
    /\ frm.call.op = "kyk_process_form" /\ frm.call.bound /\ ~frm.call.valid
    /\ frm.call.a = "kyk_edit"
    /\ frm.pc = "form"
    /\ frm.out.submitter = "app.Doc-1-kyk_edit"

\* C24: the lifecycle of a model action goes from the button over the read
\* with the query of the button to PRESENT_FORM and over the write with the
\* submitter key and valid data to PROCESS_FORM; valid data saves exactly the
\* one record and ends in a string or in a redirect signal, for redirection
\* None, 'new' and a target.
C24_Lifecycle ==
    [][ /\ (frm.pc = "button" /\ frm'.call.a # "")
            => (frm'.pc = "form" /\ frm'.call.stage = PRESENT_FORM /\ frm'.saves = 0)
        /\ (frm.pc = "form" /\ frm'.call.a # "" /\ frm'.call.valid)
            => (frm'.pc = "done" /\ frm'.call.stage = PROCESS_FORM)
        /\ (frm'.call.op = "kyk_process_form" /\ frm'.call.bound /\ frm'.call.valid)
            => /\ frm'.saves = 1
               /\ frm'.db = frm'.call.before \cup
                      {IF frm'.call.instance # 0 THEN frm'.call.instance
                                                 ELSE NewPk(frm'.call.before)}
               /\ conditional_escape(frm'.out).kind \in {"string", "raise"}
               /\ frm'.out.kind = "raise" => IsRedirection(frm'.out.exc)
               /\ (frm'.out.kind = "raise") <=> (frm'.call.redirection # PyNone)
      ]_vars

C24_Witness ==
    /\ frm.pc = "done"
    /\ frm.call.a = "kyk_edit"
    /\ frm.call.stage = PROCESS_FORM
    /\ frm.saves = 1
    /\ frm.out.kind = "raise"

\* C25: a confirmed delete whose self.delete() hits an integrity conflict
\* returns the inline alert, raises nothing and leaves the record; a
\* confirmed delete that succeeds removes the record and raises a redirect
\* signal.
C25_Delete ==
    (frm.call.op = "kyk_delete")
        => /\ (/\ frm.call.request.method = "POST"
               /\ kyk_identifier(frm.o) \o "-Delete" \in frm.call.request.POST
               /\ frm.call.stage # 1
               /\ (frm.call.redirection # PyNone \/ "home" \in DOMAIN Kyks))
                  => frm.call.called
           /\ (frm.call.called /\ frm.call.conflict)
                  => /\ frm.out.kind = "alert"
                     /\ frm.db = frm.call.before
                     /\ frm.call.instance \in frm.db
           /\ (frm.call.called /\ ~frm.call.conflict)
                  => /\ frm.out.kind = "raise"
                     /\ IsRedirection(frm.out.exc)
                     /\ frm.call.instance \notin frm.db

C25_Witness ==
    /\ frm.call.op = "kyk_delete"
    /\ frm.call.called /\ frm.call.conflict
    /\ frm.out.kind = "alert"
    /\ frm.call.instance \in frm.db

(***************************************************************************)
(* A ButtonAction and its sub-actions rendered with an explicit stage and  *)
(* design: {% kykin kyk.kyk_edit stage=... design=... %}                   *)
(***************************************************************************)
Designs == {"", "primary"}

ExplicitStages == 0..PROCESS_FORM

\* Action.__get__ followed by the access check of kykin, which reads the
\* cached property kyk_STATUS: the __dict__ of action a afterwards
Checked(a, owner) ==
    IF HasAttr(a, "kyk_STATUS")
    THEN ("kyk" :> owner) @@ dict[a]
    ELSE ("kyk" :> owner) @@ ("kyk_STATUS" :> owner_status(owner)) @@ dict[a]

\* Action.__get__: the owner an access through o binds
Owner(a, o) ==
    IF o.kind = "instance" /\ ActionDefs[a].kyk_is_instance THEN o ELSE ClassRef(o.cls)

\* {% kykin kyk.a stage=stage0 design=design %} for an editor; self.button
\* or self.result binds the sub-action to the action
RenderKykIn(a, o, request, stage0, design) ==
    \E s \in SubActions :
        /\ dict' = [dict EXCEPT ![a] = Checked(a, Owner(a, o)),
                                ![s] = ("kyk" :> ActionRef(a)) @@ dict[s]]
        /\ s = (IF (IF stage0 # 0 THEN stage0 ELSE get_stage(a, request).stage)
                       <= PRESENT_BUTTON
                THEN "button" ELSE "result")'
        /\ last' = [op |-> "kyk_in", a |-> a, request |-> request, stage0 |-> stage0,
                    design |-> design, derived |-> (get_stage(a, request).stage)',
                    submitter |-> (submitter(a))',
                    out |-> (ButtonAction_kyk_in(a, request, stage0, design))']
        /\ UNCHANGED <<probe, thr>>
        /\ UNCHANGED notAction

\* {% kykin kyk.a.button stage=stage0 design=design %} for an editor
RenderButton(a, o, request, stage0, design) ==
    /\ dict' = [dict EXCEPT ![a] = ("kyk" :> Owner(a, o)) @@ dict[a],
                            !["button"] = Checked("button", ActionRef(a))]
    /\ last' = [op |-> "button", a |-> a, request |-> request, stage0 |-> stage0,
                design |-> design, derived |-> (get_stage(a, request).stage)',
                submitter |-> (submitter(a))',
                out |-> (button(a, request, stage0, design))']
    /\ UNCHANGED <<probe, thr>>
    /\ UNCHANGED notAction

\* {% kykin kyk.a.result stage=stage0 %} for an editor
RenderResult(a, o, request, stage0) ==
    /\ dict' = [dict EXCEPT ![a] = ("kyk" :> Owner(a, o)) @@ dict[a],
                            !["result"] = Checked("result", ActionRef(a))]
    /\ last' = [op |-> "result", a |-> a, request |-> request, stage0 |-> stage0,
                design |-> "", derived |-> (get_stage(a, request).stage)',
                submitter |-> (submitter(a))',
                out |-> (result(a, request, stage0))']
    /\ UNCHANGED <<probe, thr>>
    /\ UNCHANGED notAction

InitButton ==
    /\ dict = [a \in ActionObjs |-> InitDict(a)]
    /\ last = NoLast
    /\ probe = NoProbe
    /\ thr = NoThreads
    /\ usr = NoUser
    /\ rnd = NoRender
    /\ clsdict = NoClsdict
    /\ pd = NoPd
    /\ frm = NoForm
    /\ Kyks = NoKyks
    /\ objs = NoObjs

NextButton ==
    \/ \E a \in ButtonActions, o \in Instances, request \in SampleRequests,
          stage0 \in ExplicitStages, design \in Designs :
           RenderKykIn(a, o, request, stage0, design)
    \/ \E a \in ButtonActions, o \in Instances, request \in SampleRequests,
          stage0 \in ExplicitStages, design \in Designs :
           RenderButton(a, o, request, stage0, design)
    \/ \E a \in ButtonActions, o \in Instances, request \in SampleRequests,
          stage0 \in ExplicitStages :
           RenderResult(a, o, request, stage0)

SpecButton == InitButton /\ [][NextButton]_vars

C27_ButtonDisabled ==
    (/\ last.op \in {"button", "kyk_in"}
     /\ last.out.kind = "button"
     /\ last.derived > PRESENT_BUTTON)
        => last.out.design = "disabled"

\* C28: ButtonAction.kyk_in with an effective stage (the explicit stage, or
\* the stage of the request when that is 0) of PRESENT_FORM or above calls
\* the handler.
C28_EffectiveStage ==
    (/\ last.op = "kyk_in"
     /\ (IF last.stage0 # 0 THEN last.stage0 ELSE last.derived) >= PRESENT_FORM)
        => (last.out.kind = "handler" /\ last.out.invoked)

(***************************************************************************)
(* An action declared without a status, read through several owners        *)
(***************************************************************************)
StatusClasses == {"app.Doc", "app.Report", "app.Plain"}

StatusOwners ==
    {ClassRef(c) : c \in StatusClasses}
        \cup {InstanceRef(c, n) : c \in StatusClasses, n \in 1..MaxPk}

\* {% kykin o.kyk_view %}: Action.__get__ and the access check of kykin
RenderView(o, user) ==
    /\ dict' = [dict EXCEPT !["kyk_view"] = Checked("kyk_view", Owner("kyk_view", o))]
    /\ last' = [op |-> "view", owner |-> Owner("kyk_view", o), user |-> user,
                required |-> dict'["kyk_view"].kyk_STATUS,
                allowed |-> kyk_allowed(dict'["kyk_view"].kyk_STATUS, user)]
    /\ UNCHANGED <<probe, thr>>
    /\ UNCHANGED notAction

InitStatus ==
    /\ dict = [a \in ActionObjs |-> InitDict(a)]
    /\ last = NoLast
    /\ probe = NoProbe
    /\ thr = NoThreads
    /\ usr = NoUser
    /\ rnd = NoRender
    /\ clsdict = NoClsdict
    /\ pd = NoPd
    /\ frm = NoForm
    /\ Kyks = NoKyks
    /\ objs = NoObjs

NextStatus == \E o \in StatusOwners, user \in KykinUsers : RenderView(o, user)

SpecStatus == InitStatus /\ [][NextStatus]_vars

\* C30: an action declared without a status requires, at every access, the
\* kyk_ACTION_STATUS of the owner it is accessed through (the kyk_STATUS of
\* an owner without kyk_ACTION_STATUS), whatever owners read it before.
C30_OwnerStatus ==
    last.op = "view"
        => /\ last.required = owner_status(last.owner)
           /\ last.allowed <=> (last.user.status >= owner_status(last.owner))

(***************************************************************************)
(* ParameterDict: the Status levels built from settings.KYK_STATUS and     *)
(* extended by other modules                                               *)
(***************************************************************************)
MaxExtra == 2

\* the keys other modules add to the status levels
ExtraKeys == {"GUEST", "OWNER", "ROOT"}

\* the configured lists: the first n names of KYK_STATUS
ParameterLists == {SubSeq(KYK_STATUS, 1, n) : n \in 1..Len(KYK_STATUS)}

\* ParameterDict.__init__ with positional keys: the items in insertion order, key -> i+1
ParameterDict_init(args) == [i \in 1..Len(args) |-> [key |-> args[i], value |-> i]]

ItemKeys(items) == {items[i].key : i \in 1..Len(items)}

ItemValues(items) == {items[i].value : i \in 1..Len(items)}

\* self[key]
GetItem(items, key) == items[CHOOSE i \in 1..Len(items) : items[i].key = key].value

\* dict.__setitem__, which ParameterDict inherits: a new key goes to the end
\* and a known key keeps its place
dict_setitem(items, key, value) ==
    IF key \in ItemKeys(items)
    THEN [i \in 1..Len(items) |->
             IF items[i].key = key THEN [key |-> key, value |-> value] ELSE items[i]]
    ELSE Append(items, [key |-> key, value |-> value])

\* the body of value2key, {value: key for key, value in self.items()}, as
\* the set of its (value, key) pairs: the last key with a value wins
value2key_body(items) ==
    {<<items[i].value, items[i].key>> : i \in
        {j \in 1..Len(items) : \A h \in (j + 1)..Len(items) : items[h].value # items[j].value}}

\* ParameterDict.value2key, a cached_property: the dictionary read, and the
\* cache in the __dict__ of the ParameterDict after the read
value2key(p) ==
    IF p.cache.cached
    THEN [value |-> p.cache.map, cache |-> p.cache]
    ELSE [value |-> value2key_body(p.items),
          cache |-> [cached |-> TRUE, map |-> value2key_body(p.items)]]

\* Status[key] = value in another module: a new key with a value not in use
ParameterSetItem(key, value) ==
    /\ key \notin ItemKeys(pd.items)
    /\ value \notin ItemValues(pd.items)
    /\ Len(pd.items) < pd.n + MaxExtra
    /\ pd' = [pd EXCEPT !.op = "setitem", !.items = dict_setitem(pd.items, key, value)]
    /\ UNCHANGED notParameters

\* Status.value2key is read
ReadValue2key ==
    /\ pd' = [pd EXCEPT !.op = "value2key", !.cache = value2key(pd).cache,
                        !.out = value2key(pd).value]
    /\ UNCHANGED notParameters

InitParameters ==
    /\ dict = [a \in ActionObjs |-> InitDict(a)]
    /\ last = NoLast
    /\ probe = NoProbe
    /\ thr = NoThreads
    /\ usr = NoUser
    /\ rnd = NoRender
    /\ clsdict = NoClsdict
    /\ frm = NoForm
    /\ Kyks = NoKyks
    /\ objs = NoObjs
    /\ \E args \in ParameterLists :
           pd = [op |-> "init", n |-> Len(args), items |-> ParameterDict_init(args),
                 cache |-> [cached |-> FALSE, map |-> {}], out |-> {}]

NextParameters ==
    \/ \E key \in ExtraKeys, value \in 1..(Len(KYK_STATUS) + MaxExtra) :
           ParameterSetItem(key, value)
    \/ ReadValue2key

SpecParameters == InitParameters /\ [][NextParameters]_vars

\* C31: the configured levels are the integers 1..n in the order of the
\* list, and value2key[Status[k]] = k for every key k of the dictionary,
\* also after entries were added.
C31_BothDirections ==
    /\ \A i \in 1..pd.n : pd.items[i].value = i
    /\ \A k \in ItemKeys(pd.items) : <<GetItem(pd.items, k), k>> \in value2key(pd).value

(***************************************************************************)
(* C32: every component of the registry carries the key it is stored       *)
(* under, Kyks[k].kyk_Kyks_key = k for every key k, also when one          *)
(* component is registered under several names.                            *)
(***************************************************************************)
C32_KeyCarried ==
    \A k \in DOMAIN Kyks : objs[Kyks[k]].kyk_Kyks_key = k

(***************************************************************************)
(* The user-session component: {% kykin Kyks.users.logout %}               *)
(***************************************************************************)
\* the keys a request body may hold for the logout form
LogoutKeys == {"Users:logout", "users:logout"}

LogoutRequests ==
    { [method |-> "GET", GET |-> {}, POST |-> {}] }
        \cup { [method |-> "POST", GET |-> {}, POST |-> body] :
                   body \in {{}} \cup {{k} : k \in LogoutKeys} }

\* Users.logout on the component self for the user and session u; the
\* submit code is built from self.prefix, an attribute that neither Users,
\* KykBase nor a registration sets
Users_logout(self, request, u) ==
    IF "prefix" \notin DOMAIN self
    THEN [out |-> [kind |-> "raise",
                   exc |-> [cls |-> "AttributeError", args |-> <<"prefix">>,
                            kwargs |-> <<>>]],
          usr |-> u]
    ELSE IF request.method = "POST" /\ (self.prefix \o ":logout") \in request.POST
         THEN [out |-> [kind |-> "raise", exc |-> Redirection(<<".">>, <<>>)],
               usr |-> SetOn(AnonymousUser, EmptySession, "logout")]
         ELSE [out |-> [kind |-> "form", template |-> "FORM",
                        submit_code |-> self.prefix \o ":logout"],
               usr |-> u]

\* the logout action of the component registered under key, rendered for
\* the user of the request
UsersLogout(key, request) ==
    /\ usr.op # "none"
    /\ key \in DOMAIN Kyks
    /\ objs[Kyks[key]].cls = "Users"
    /\ usr' = Users_logout(objs[Kyks[key]], request, usr).usr
    /\ last' = [op |-> "Users.logout", key |-> key, request |-> request, before |-> usr,
                out |-> Users_logout(objs[Kyks[key]], request, usr).out]
    /\ UNCHANGED <<dict, probe, thr, rnd, Kyks, objs, clsdict, frm, pd>>

\* the registry after the import of the models package, and no request yet
InitSession ==
    /\ dict = [a \in ActionObjs |-> InitDict(a)]
    /\ last = NoLast
    /\ probe = NoProbe
    /\ thr = NoThreads
    /\ usr = NoUser
    /\ rnd = NoRender
    /\ clsdict = NoClsdict
    /\ pd = NoPd
    /\ frm = NoForm
    /\ Kyks = [k \in {"Users", "users"} |-> IF k = "Users" THEN 1 ELSE 2]
    /\ objs = << [cls |-> "Users", identifier |-> "Users", kyk_Kyks_key |-> "Users"],
                 [cls |-> "Users", identifier |-> PyNone, kyk_Kyks_key |-> "users"] >>

NextSession ==
    \/ \E f \in Accounts \cup {AnonymousUser}, h \in BOOLEAN : Middleware(f, h)
    \/ \E a \in Accounts : Login(a)
    \/ \E key \in {"Users", "users"}, request \in LogoutRequests : UsersLogout(key, request)

SpecSession == InitSession /\ [][NextSession]_vars

\* C33: the logout action of the user-session component logs the user out,
\* sets status and max_status for the anonymous user and raises a redirect
\* signal on a POST with its logout submit key; on any other request it
\* returns the logout form and leaves the user and the session as they were.
C33_Logout ==
    last.op = "Users.logout"
        => /\ (last.request.method = "POST" /\ last.request.POST # {})
                  => \/ last.out.kind = "form" /\ usr = last.before
                     \/ /\ last.out.kind = "raise" /\ IsRedirection(last.out.exc)
                        /\ ~usr.user.is_authenticated
                        /\ usr.max_status = set_user_status(usr.user, usr.session).max_status
                        /\ usr.status = set_user_status(usr.user, usr.session).status
           /\ (last.request.method # "POST" \/ last.request.POST = {})
                  => (last.out.kind = "form" /\ usr = last.before)

\* C34: a record leaves the database only through kyk_delete on that
\* record, called with a POST whose body holds '<identifier>-Delete' and with
\* a stage other than 1; a GET, a POST without that key and a call with
\* stage 1 delete nothing.
C34_DeleteOnlyConfirmed ==
    [][ /\ (frm.db \ frm'.db # {})
            => /\ frm'.call.op = "kyk_delete"
               /\ frm.db \ frm'.db = {frm'.call.instance}
               /\ frm'.call.request.method = "POST"
               /\ (kyk_identifier(frm'.o) \o "-Delete") \in frm'.call.request.POST
               /\ frm'.call.stage # 1
        /\ (/\ frm'.call.op = "kyk_delete"
            /\ \/ frm'.call.request.method # "POST"
               \/ (kyk_identifier(frm'.o) \o "-Delete") \notin frm'.call.request.POST
               \/ frm'.call.stage = 1)
            => (frm'.db = frm.db /\ ~frm'.call.called)
      ]_vars

C34_Witness ==
    /\ frm.call.op = "kyk_delete"
    /\ frm.call.called /\ ~frm.call.conflict
    /\ frm.call.stage = 2
    /\ frm.call.request.method = "POST"
    /\ frm.call.instance \notin frm.db
    /\ frm.call.instance \in frm.call.before

(***************************************************************************)
(* C35: for one request every action has one stage: a GET puts no action   *)
(* in PROCESS_FORM, a POST puts none in PRESENT_FORM, and the owner        *)
(* identifier in PRESENT_FORM for an action name is the one value of the   *)
(* query parameter of that name.                                           *)
(***************************************************************************)
C35_StagesExclusive ==
    \A request \in Requests, a \in ButtonActions :
        HasAttr(a, "kyk") =>
            LET stage == get_stage(a, request).stage
            IN  /\ stage \in {PRESENT_BUTTON, PRESENT_FORM, PROCESS_FORM}
                /\ request.method = "GET" => stage # PROCESS_FORM
                /\ request.method = "POST" => stage # PRESENT_FORM
                /\ request.method \notin {"GET", "POST"} => stage = PRESENT_BUTTON
                /\ stage = PRESENT_FORM
                       => kyk_identifier(dict[a].kyk) = QueryGet(request, ActionDefs[a].name)

\* the edit of the second instance is in PRESENT_FORM for the probed GET
C35_Witness ==
    /\ probe.count > 0
    /\ probe.action = "kyk_edit"
    /\ probe.request.method = "GET"
    /\ probe.latest = PRESENT_FORM
    /\ probe.identifier = "app.Doc-2"
    /\ dict["kyk_edit"].kyk = InstanceRef("app.Doc", 2)

(***************************************************************************)
(* safe_render with templates that render a ButtonAction in each attempt   *)
(***************************************************************************)
\* the requests of the edit lifecycle of the first instance that safe_render
\* is called with
StageRenderRequests ==
    LET id == kyk_identifier(InstanceRef("app.Doc", 1))
    IN  { [method |-> "GET", GET |-> {}, POST |-> {}],
          [method |-> "GET", GET |-> {<<"kyk_edit", id>>}, POST |-> {}],
          [method |-> "POST", GET |-> {}, POST |-> {id \o "-" \o "kyk_edit"}],
          [method |-> "POST", GET |-> {<<"kyk_edit", id>>}, POST |-> {id \o "-" \o "kyk_edit"}] }

\* the request as the render attempt that comes next sees it
CurrentRequest == [method |-> rnd.method, GET |-> rnd.GET, POST |-> rnd.POST]

\* the template of the attempt that comes next renders {% kykin o.a %}:
\* Action.__get__ and then get_stage on the request of safe_render
RenderEvaluates(a, o) ==
    /\ rnd.pc = "loop"
    /\ has_next(rnd.it, rnd.RELOADS)
    /\ dict' = [dict EXCEPT ![a] = ("kyk" :> Owner(a, o)) @@ dict[a]]
    /\ \E request \in {CurrentRequest} :
           last' = [op |-> "stage", a |-> a, owner |-> Owner(a, o), request |-> request,
                    attempt |-> rnd.attempts + 1, afterAsGet |-> rnd.asGet,
                    stage |-> (get_stage(a, request).stage)']
    /\ UNCHANGED <<probe, thr, usr, rnd, Kyks, objs, clsdict, frm, pd>>

InitRenderStage ==
    /\ dict = [a \in ActionObjs |-> InitDict(a)]
    /\ last = NoLast
    /\ probe = NoProbe
    /\ thr = NoThreads
    /\ usr = NoUser
    /\ clsdict = NoClsdict
    /\ pd = NoPd
    /\ frm = NoForm
    /\ Kyks = NoKyks
    /\ objs = NoObjs
    /\ \E RELOADS \in (0..MaxReloads) \cup {DefaultReloads}, request \in StageRenderRequests :
          rnd = [pc |-> "loop", it |-> 0, attempts |-> 0, outcome |-> "none",
                 allReload |-> TRUE, RELOADS |-> RELOADS,
                 kyk |-> "home", template |-> "page.html",
                 method |-> request.method, GET |-> request.GET, POST |-> request.POST,
                 first |-> request,
                 sig |-> NoSignal, prev |-> [kyk |-> "home", template |-> "page.html"],
                 orig |-> [kyk |-> "home", template |-> "page.html"], asGet |-> FALSE,
                 raised |-> NoException, exc |-> NoException, response |-> NoResponse]

NextRenderStage ==
    \/ \E a \in ButtonActions, o \in Instances : RenderEvaluates(a, o)
    \/ RenderReturns
    \/ \E k \in {PyNone}, t \in {""} : RenderReload(k, t)
    \/ \E k \in {PyNone}, t \in {""} : RenderReloadAsGet(k, t)
    \/ Exhausted

SpecRenderStage == InitRenderStage /\ [][NextRenderStage]_vars

\* C36: once safe_render has caught ReloadAsGet, no ButtonAction that a later
\* attempt of the same request evaluates is in PROCESS_FORM.
C36_NoProcessAfterAsGet ==
    (last.op = "stage" /\ last.afterAsGet) => last.stage # PROCESS_FORM

\* the POST that submitted the edit form is evaluated again after the signal
C36_Witness ==
    /\ last.op = "stage"
    /\ last.afterAsGet
    /\ last.a = "kyk_edit"
    /\ last.owner = InstanceRef("app.Doc", 1)
    /\ rnd.first.method = "POST"
    /\ "app.Doc-1-kyk_edit" \in rnd.first.POST
    /\ last.attempt >= 2
    /\ last.stage = PRESENT_FORM

(***************************************************************************)
(* Paging through the list: a client starts at index 0 and follows the     *)
(* next_index of each page                                                 *)
(***************************************************************************)
\* the first request of a client that pages through count items
StartOfWalk(count, size) ==
    [op |-> "walk", count |-> count, size |-> size, next |-> 0, shown |-> <<>>,
     pages |-> 0, done |-> FALSE]

\* the client requests ?index=<next_index>&size=<size>
NextPage ==
    /\ last.op = "walk"
    /\ ~last.done
    /\ LET out == KykList_kyk_in([index |-> last.next, size |-> last.size],
                                 Query(last.count))
       IN  last' = [last EXCEPT !.shown = @ \o out.kyk_list,
                                !.pages = @ + 1,
                                !.next = out.next_index,
                                !.done = (out.next_index = 0)]
    /\ UNCHANGED notList

InitWalk ==
    /\ dict = [a \in ActionObjs |-> InitDict(a)]
    /\ probe = NoProbe
    /\ thr = NoThreads
    /\ usr = NoUser
    /\ rnd = NoRender
    /\ clsdict = NoClsdict
    /\ pd = NoPd
    /\ frm = NoForm
    /\ Kyks = NoKyks
    /\ objs = NoObjs
    /\ \E count \in ListCounts, size \in ListSizes : last = StartOfWalk(count, size)

NextWalk == NextPage

SpecWalk == InitWalk /\ [][NextWalk]_vars

\* the client goes on to the next page as long as there is one
SpecWalkLive == SpecWalk /\ WF_vars(NextWalk)

\* C37: a client that starts at index 0 with a size of at least 1 and
\* follows next_index sees the items of the query in order, each once, and
\* comes to a page with next_index 0.
C37_EveryItemOnce ==
    /\ [](/\ Len(last.shown) <= last.count
          /\ \A i \in 1..Len(last.shown) : last.shown[i] = Query(last.count)[i]
          /\ last.pages <= last.count + 1
          /\ last.done => last.shown = Query(last.count))
    /\ <>(last.done)

\* five items in pages of two: three pages
C37_Witness ==
    /\ last.done
    /\ last.count = 5 /\ last.size = 2
    /\ last.pages = 3
    /\ last.shown = <<0, 1, 2, 3, 4>>

(***************************************************************************)
(* The list with whatever size the request names                           *)
(***************************************************************************)
\* the sizes a request can name, zero and negative ones included
AnySizes == ListSizes \cup {0} \cup {-sz : sz \in 1..MaxSize}

AnyListQueries == {[index |-> i, size |-> sz] : i \in ListIndexes, sz \in AnySizes}

\* {% kykin kyk %} on a KykList for a request that names index and size; the
\* slice of a query with a negative bound is left to the query
ListKykInAny(GET, count) ==
    /\ GET.index + GET.size >= 0
    /\ ListKykIn(GET, count)

NextListAny ==
    \E GET \in AnyListQueries, count \in ListCounts : ListKykInAny(GET, count)

SpecListAny == InitList /\ [][NextListAny]_vars

\* C38: for every index >= 0 and every size of the request, a next_index
\* other than 0 is greater than index.
C38_NextIndexAdvances ==
    (last.op = "KykList.kyk_in" /\ last.index >= 0 /\ last.out.next_index # 0)
        => last.out.next_index > last.index

====
